---- MODULE Spec2Model ----
(***************************************************************************)
(* Model of the file-intake and download slice of the model-hosting site:  *)
(*   - the scan-result webhook (src/pages/api/webhooks/scan-result.ts),    *)
(*   - the model service createModel / updateModel,                        *)
(*   - the download endpoint (src/pages/api/download/models/[id].ts).      *)
(* The relational store is modelled as four tables (models, versions,      *)
(* files, hashes) plus the auto-increment counters and the activity log.   *)
(*                                                                         *)
(* Strings the code inspects (URLs, pickle import strings, messages) are   *)
(* sequences of tokens; a token is an indivisible piece of text that holds *)
(* none of the characters the code splits, strips or searches for.         *)
(***************************************************************************)
EXTENDS Integers, Sequences, FiniteSets, TLC

VARIABLES
  alert,       \* the EarlyAccessAlert component and the query cache behind it
  calls,       \* the webhook calls in progress or answered, statement by statement
  models, versions, files, hashes,  \* the tables
  seq,         \* the auto-increment counters
  env,         \* the server's configuration
  activities,  \* the UserActivity rows, in insertion order
  users,       \* the User rows, with their tag engagements
  now,         \* the clock: the number of operations handled so far
  req, res,    \* history: the last request and the answer it got
  prev         \* history: the store as the last operation found it

vars == <<alert, calls, models, versions, files, hashes, seq, env, activities, users, now, req,
          res, prev>>

(***************************** bounds **************************************)
\* longest import list a scanner payload carries (SpecScan)
MaxImports == 2
\* webhook calls in one behaviour of SpecIntake
MaxCalls == 2
\* operations in one behaviour of Spec
MaxOps == 3
\* createModel / updateModel calls in one behaviour of SpecEdit
MaxEdits == 3
\* user handler calls in one behaviour of SpecUser
MaxUserCalls == 2
\* download requests in one behaviour of SpecDownload
MaxDownloads == 1

(***************************** optional values *****************************)
\* null / undefined / absent
None == [some |-> FALSE]
Some(x) == [some |-> TRUE, val |-> x]

Range(s) == {s[i] : i \in 1..Len(s)}

\* String.prototype.includes on token sequences
Includes(s, sub) ==
  \E i \in 0..(Len(s) - Len(sub)) : SubSeq(s, i + 1, i + Len(sub)) = sub

\* Array.prototype.indexOf, 1-based; 0 when absent (JavaScript's -1)
IndexOf(s, x) ==
  IF \E i \in 1..Len(s) : s[i] = x
    THEN CHOOSE i \in 1..Len(s) : s[i] = x /\ \A j \in 1..(i - 1) : s[j] # x
    ELSE 0

\* all sequences over S of length at most n
SeqsUpTo(S, n) == UNION {[1..k -> S] : k \in 0..n}

(***************************** enumerations ********************************)
ModelStatus == {"Draft", "Published", "Unpublished", "GatherInterest"}

ScanResultCode == {"Pending", "Success", "Danger", "Error"}

ScanExitCode == [Pending |-> -1, Success |-> 0, Danger |-> 1, Error |-> 2]

ScanExitCodes == {ScanExitCode.Pending, ScanExitCode.Success,
                  ScanExitCode.Danger, ScanExitCode.Error}

resultCodeMap(code) ==
  CASE code = ScanExitCode.Pending -> "Pending"
    [] code = ScanExitCode.Success -> "Success"
    [] code = ScanExitCode.Danger -> "Danger"
    [] code = ScanExitCode.Error -> "Error"

ModelHashType == {"AutoV1", "AutoV2", "SHA256", "CRC32", "BLAKE3"}

ModelFileFormat == {"PickleTensor", "SafeTensor", "Other"}

\* env.S3_UPLOAD_BUCKET
S3_UPLOAD_BUCKET == <<"model-share">>

(***************************** pickle imports ******************************)
\* decodeURIComponent on the escapes that occur in import strings
decodeURIComponent(s) ==
  [i \in 1..Len(s) |->
     CASE s[i] = "%27" -> "'"
       [] s[i] = "%2C" -> ","
       [] s[i] = "%20" -> " "
       [] OTHER -> s[i]]

RECURSIVE Split(_, _)
\* String.prototype.split(sep)
Split(s, sep) ==
  IF \A i \in 1..Len(s) : s[i] # sep
    THEN <<s>>
    ELSE LET i == CHOOSE k \in 1..Len(s) :
                    s[k] = sep /\ \A j \in 1..(k - 1) : s[j] # sep
         IN <<SubSeq(s, 1, i - 1)>> \o Split(SubSeq(s, i + 1, Len(s)), sep)

RECURSIVE Trim(_)
\* String.prototype.trim
Trim(s) ==
  IF s = <<>> THEN s
  ELSE IF Head(s) = " " THEN Trim(Tail(s))
  ELSE IF s[Len(s)] = " " THEN Trim(SubSeq(s, 1, Len(s) - 1))
  ELSE s

RECURSIVE Join(_, _)
\* Array.prototype.join(sep)
Join(parts, sep) ==
  IF parts = <<>> THEN <<>>
  ELSE IF Len(parts) = 1 THEN parts[1]
  ELSE parts[1] \o <<sep>> \o Join(Tail(parts), sep)

processImport(importStr) ==
  LET decoded == decodeURIComponent(importStr)
      split == Split(decoded, ",")
      importParts == [i \in 1..Len(split) |->
                        Trim(SelectSeq(split[i], LAMBDA c : c # "'"))]
  IN Join(importParts, ".")

specialImports ==
  {<<"pytorch_lightning", ".", "callbacks", ".", "model_checkpoint", ".",
     "ModelCheckpoint">>}

\* Array.prototype.splice(start, 1) with a 0-based start
Splice1(s, start) ==
  IF start < Len(s)
    THEN SubSeq(s, 1, start) \o SubSeq(s, start + 2, Len(s))
    ELSE s

RECURSIVE Reclassify(_, _, _)
\* the loop over dangerousGlobals: push onto the dangerous list, then splice
\* the global list at the index the import has in the DANGEROUS list
Reclassify(todo, dangerous, globals) ==
  IF todo = <<>> THEN [dangerous |-> dangerous, globals |-> globals]
  ELSE LET imp == Head(todo)
           pushed == Append(dangerous, imp)
       IN Reclassify(Tail(todo), pushed,
                     Splice1(globals, IndexOf(pushed, imp) - 1))

ImportLine(imp) == processImport(imp)

DangerLine(imp) == <<"*">> \o processImport(imp) \o <<"*">>

\* the line of three backquotes that opens and closes the pre block
Fence == <<"[three backquotes]">>

\* the message is the sequence of its lines (lines.join('\n'))
NoPickleImports == << <<"No Pickle imports">> >>

NoImports_Never(importCount) == importCount < 0

\* the test of line 161 (both lists are arrays by then: only the count decides)
NoImports(importCount) == importCount = 0

\* Result: pickleScanMessage and hasDanger are None when the function returns
\* {} ; dangerous / globals are the two arrays as the call leaves them (an
\* array present in the payload is mutated in place).
examinePickleScanMessage(scanResult) ==
  LET dangerous0 == IF scanResult.picklescanDangerousImports.some
                      THEN scanResult.picklescanDangerousImports.val ELSE <<>>
      globals0 == IF scanResult.picklescanGlobalImports.some
                    THEN scanResult.picklescanGlobalImports.val ELSE <<>>
      importCount == Len(dangerous0) + Len(globals0)
      dangerousGlobals ==
        SelectSeq(globals0, LAMBDA x : processImport(x) \in specialImports)
      after == Reclassify(dangerousGlobals, dangerous0, globals0)
      hasDanger == Len(after.dangerous) > 0
      lines ==
        << <<"**Detected Pickle imports (", ToString(importCount), ")**">> >>
        \o (IF hasDanger THEN << <<"*Dangerous import detected*">> >> ELSE <<>>)
        \o <<Fence>>
        \o [i \in 1..Len(after.dangerous) |-> DangerLine(after.dangerous[i])]
        \o [i \in 1..Len(after.globals) |-> ImportLine(after.globals[i])]
        \o <<Fence>>
  IN IF scanResult.picklescanExitCode = ScanExitCode.Pending
       THEN [pickleScanMessage |-> None, hasDanger |-> None,
             dangerous |-> scanResult.picklescanDangerousImports,
             globals |-> scanResult.picklescanGlobalImports]
     ELSE IF NoImports(importCount)
       THEN [pickleScanMessage |-> Some(NoPickleImports),
             hasDanger |-> Some(FALSE),
             dangerous |-> scanResult.picklescanDangerousImports,
             globals |-> scanResult.picklescanGlobalImports]
     ELSE [pickleScanMessage |-> Some(lines),
           hasDanger |-> Some(hasDanger),
           dangerous |-> IF scanResult.picklescanDangerousImports.some
                           THEN Some(after.dangerous)
                           ELSE scanResult.picklescanDangerousImports,
           globals |-> IF scanResult.picklescanGlobalImports.some
                         THEN Some(after.globals)
                         ELSE scanResult.picklescanGlobalImports]

(***************************** the store ***********************************)
\* The tables and the auto-increment counters, as one value.
DB == [models |-> models, versions |-> versions, files |-> files,
       hashes |-> hashes, activities |-> activities, users |-> users,
       seq |-> seq]

EmptyDB == [models |-> <<>>, versions |-> <<>>, files |-> <<>>,
            hashes |-> {}, activities |-> <<>>, users |-> <<>>,
            seq |-> [model |-> 0, version |-> 0, file |-> 0]]

Restrict(f, S) == [x \in S |-> f[x]]

VersionsOf(db, modelId) ==
  {v \in DOMAIN db.versions : db.versions[v].modelId = modelId}

FilesOf(db, versionId) ==
  {f \in DOMAIN db.files : db.files[f].modelVersionId = versionId}

\* _count.modelVersions where status = Published
PublishedCount(db, modelId) ==
  Cardinality({v \in VersionsOf(db, modelId) :
                 db.versions[v].status = "Published"})

\* a ModelFile row as a create leaves it: the schema's defaults
NewFile(versionId, f) ==
  [modelVersionId |-> versionId, type |-> f.type, format |-> f.format,
   url |-> f.url, exists |-> None,
   pickleScanResult |-> "Pending", pickleScanMessage |-> None,
   virusScanResult |-> "Pending", virusScanMessage |-> None,
   scannedAt |-> None, rawScanResult |-> None]

(***************************** scan-result webhook *************************)
\* the published-version count read before the version update
unpublish_StaleCount(db, modelVersionId) ==
  LET db1 == [db EXCEPT !.versions[modelVersionId].status = "Draft"]
      modelId == db1.versions[modelVersionId].modelId
  IN IF modelId \in DOMAIN db1.models /\ PublishedCount(db, modelId) = 0
       THEN [db1 EXCEPT !.models[modelId].status = "Unpublished"]
       ELSE db1

\* the model unpublished without looking at the count
unpublish_Unconditional(db, modelVersionId) ==
  LET db1 == [db EXCEPT !.versions[modelVersionId].status = "Draft"]
      modelId == db1.versions[modelVersionId].modelId
  IN [db1 EXCEPT !.models[modelId].status = "Unpublished"]

\* every version of the model set to Draft
unpublish_WholeModel(db, modelVersionId) ==
  LET modelId == db.versions[modelVersionId].modelId
  IN [db EXCEPT
        !.versions = [v \in DOMAIN @ |->
                        IF @[v].modelId = modelId
                          THEN [@[v] EXCEPT !.status = "Draft"] ELSE @[v]],
        !.models[modelId].status = "Unpublished"]

\* the model unpublished only when it was Published
unpublish_OnlyPublishedModels(db, modelVersionId) ==
  LET db1 == [db EXCEPT !.versions[modelVersionId].status = "Draft"]
      modelId == db1.versions[modelVersionId].modelId
  IN IF /\ modelId \in DOMAIN db1.models
        /\ PublishedCount(db1, modelId) = 0
        /\ db1.models[modelId].status = "Published"
       THEN [db1 EXCEPT !.models[modelId].status = "Unpublished"]
       ELSE db1

unpublish(db, modelVersionId) ==
  LET db1 == [db EXCEPT !.versions[modelVersionId].status = "Draft"]
      modelId == db1.versions[modelVersionId].modelId
  IN IF modelId \in DOMAIN db1.models /\ PublishedCount(db1, modelId) = 0
       THEN [db1 EXCEPT !.models[modelId].status = "Unpublished"]
       ELSE db1

findUnique_IgnoreFormat(db, r) ==
  LET found == {f \in DOMAIN db.files :
                  /\ db.files[f].modelVersionId = r.modelVersionId
                  /\ db.files[f].type = r.type
                  /\ db.files[f].url # <<>>}
  IN IF found = {} THEN 0 ELSE CHOOSE f \in found : TRUE

\* prisma.modelFile.findUnique on modelVersionId_type_format, then the test
\* of line 27: the id of the row, or 0 when the answer is 404
findUnique(db, r) ==
  LET found == {f \in DOMAIN db.files :
                  /\ db.files[f].modelVersionId = r.modelVersionId
                  /\ db.files[f].type = r.type
                  /\ db.files[f].format = r.format
                  /\ db.files[f].url # <<>>}
  IN IF found = {} THEN 0 ELSE CHOOSE f \in found : TRUE

scannerImportedFile_NoGuard(url, scanUrl) == Includes(scanUrl, S3_UPLOAD_BUCKET)

scannerImportedFile(url, scanUrl) ==
  ~Includes(url, S3_UPLOAD_BUCKET) /\ Includes(scanUrl, S3_UPLOAD_BUCKET)

ReplaceHashes_Merge(rows, fileId, hs) ==
  {h \in rows : h.fileId # fileId \/ h.type \notin DOMAIN hs}
  \cup {[fileId |-> fileId, type |-> k, hash |-> hs[k]] : k \in DOMAIN hs}

\* deleteMany({fileId}) followed by createMany(Object.entries(hashes))
ReplaceHashes(rows, fileId, hs) ==
  {h \in rows : h.fileId # fileId}
  \cup {[fileId |-> fileId, type |-> k, hash |-> hs[k]] : k \in DOMAIN hs}

IntakeRes(status, fileId, hasDanger) ==
  [op |-> "intake", status |-> status, fileId |-> fileId,
   hasDanger |-> hasDanger]

\* every task run whatever the list
HasTask_Always(tasks, task) == TRUE

\* tasks.includes(task)
HasTask(tasks, task) == task \in Range(tasks)

\* query.tasks ?? ['Import', 'Scan', 'Hash']
Tasks(r) == IF r.tasks.some THEN r.tasks.val ELSE <<"Import", "Scan", "Hash">>

\* The row after modelFile.update({ where, data }) with the data of lines
\* 29-52: only the fields the tasks put into data are written.  url: the URL
\* findUnique read; t: the value of new Date().
FileData(file, r, url, t) ==
  LET body == r.body
      doScan == HasTask(Tasks(r), "Scan")
      doImport == HasTask(Tasks(r), "Import")
      exam == examinePickleScanMessage(body)
      hasDanger == exam.hasDanger = Some(TRUE)
      \* the payload object after lines 40-42: data.rawScanResult refers to it
      scanResult ==
        IF doScan
          THEN [body EXCEPT
                  !.picklescanExitCode =
                     IF hasDanger THEN ScanExitCode.Danger ELSE @,
                  !.picklescanDangerousImports = exam.dangerous,
                  !.picklescanGlobalImports = exam.globals]
          ELSE body
      exists == body.fileExists = 1
      afterScan ==
        IF doScan
          THEN [file EXCEPT
                  !.scannedAt = Some(t),
                  !.rawScanResult = Some(scanResult),
                  !.virusScanResult = resultCodeMap(body.clamscanExitCode),
                  !.virusScanMessage =
                     IF body.clamscanExitCode # ScanExitCode.Success
                       THEN Some(body.clamscanOutput) ELSE None,
                  !.pickleScanResult = resultCodeMap(body.picklescanExitCode),
                  !.pickleScanMessage =
                     IF exam.pickleScanMessage.some
                       THEN exam.pickleScanMessage ELSE @]
          ELSE file
  IN IF doImport
       THEN [afterScan EXCEPT
               !.exists = Some(exists),
               !.url = IF exists /\ scannerImportedFile(url, body.url)
                         THEN body.url ELSE @]
       ELSE afterScan

\* r: the request (method, query, body); t: the value of new Date()
WebhookEndpoint(db, r, t) ==
  LET tasks == Tasks(r)
      fileId == findUnique(db, r)
  IN
  IF r.method # "POST" THEN [db |-> db, res |-> IntakeRes(405, 0, None)]
  ELSE IF fileId = 0 THEN [db |-> db, res |-> IntakeRes(404, 0, None)]
  ELSE
    LET file == db.files[fileId]
        body == r.body
        doScan == HasTask(tasks, "Scan")
        doImport == HasTask(tasks, "Import")
        exam == examinePickleScanMessage(body)
        exists == body.fileExists = 1
        db1 == IF doImport /\ ~exists THEN unpublish(db, r.modelVersionId)
               ELSE db
        db2 == [db1 EXCEPT !.files[fileId] = FileData(file, r, file.url, t)]
        doHash == HasTask(tasks, "Hash") /\ body.hashes.some
        db3 ==
          IF doHash
            THEN [db2 EXCEPT !.hashes = ReplaceHashes(@, fileId, body.hashes.val)]
            ELSE db2
    IN [db |-> db3,
        res |-> IntakeRes(200, fileId, IF doScan THEN exam.hasDanger ELSE None)]

(***************************** model service *******************************)
\* An input file is [id, type, format, url] as prepareFile returns it, an
\* input version [id, name, files]; id 0 stands for an absent id.  A
\* version's name stands for all its scalar content (name, description,
\* baseModel, steps, epochs, trainedWords, images).
HasFileConflict(fs) ==
  \E i, j \in 1..Len(fs) :
    i < j /\ fs[i].type = fs[j].type /\ fs[i].format = fs[j].format

\* only the first version looked at
prepareModelVersions_FirstVersionOnly(vs) ==
  Len(vs) > 0 /\ HasFileConflict(vs[1].files)

\* TRUE when prepareModelVersions throws CONFLICT
prepareModelVersions(vs) ==
  \E i \in 1..Len(vs) : HasFileConflict(vs[i].files)

RECURSIVE FilesBefore(_, _)
\* number of files of the first i versions of vs
FilesBefore(vs, i) ==
  IF i = 0 THEN 0 ELSE FilesBefore(vs, i - 1) + Len(vs[i].files)

\* nested create of versions vs (with their files) under model modelId;
\* status[i] and index[i] give the i-th new row's columns
CreateVersions(db, modelId, vs, status, index) ==
  LET vid(i) == db.seq.version + i
      newVersions ==
        [v \in {vid(i) : i \in 1..Len(vs)} |->
           LET i == v - db.seq.version
           IN [modelId |-> modelId, index |-> index[i], name |-> vs[i].name,
               status |-> status[i]]]
      newFiles ==
        [f \in (db.seq.file + 1)..(db.seq.file + FilesBefore(vs, Len(vs))) |->
           LET i == CHOOSE k \in 1..Len(vs) :
                      /\ f - db.seq.file > FilesBefore(vs, k - 1)
                      /\ f - db.seq.file <= FilesBefore(vs, k)
               j == f - db.seq.file - FilesBefore(vs, i - 1)
           IN NewFile(vid(i), vs[i].files[j])]
  IN [db EXCEPT
        !.versions = @ @@ newVersions,
        !.files = @ @@ newFiles,
        !.seq = [@ EXCEPT !.version = @ + Len(vs),
                          !.file = @ + FilesBefore(vs, Len(vs))]]

ModelRes(op, status, id) == [op |-> op, status |-> status, id |-> id]

createModel(db, input) ==
  IF prepareModelVersions(input.modelVersions)
    THEN [db |-> db, res |-> ModelRes("createModel", "CONFLICT", 0)]
  ELSE
    LET id == db.seq.model + 1
        db1 == [db EXCEPT !.models = @ @@ (id :> [status |-> input.status]),
                          !.seq.model = id]
        status == [i \in 1..Len(input.modelVersions) |-> input.status]
        index == [i \in 1..Len(input.modelVersions) |-> i - 1]
    IN [db |-> CreateVersions(db1, id, input.modelVersions, status, index),
        res |-> ModelRes("createModel", "OK", id)]

\* existingVersions[matched] against parsedModelVersions[matched] under
\* lodash isEqual.  The stored side selects its files as {id, type, url,
\* name, sizeKB}; a prepared file also carries format, so two file lists are
\* equal only when both are empty.
isEqualVersion(db, existingId, parsedVersion) ==
  /\ existingId = parsedVersion.id
  /\ db.versions[existingId].name = parsedVersion.name
  /\ FilesOf(db, existingId) = {}
  /\ parsedVersion.files = <<>>

\* the orders findMany(orderBy: index asc) may return the model's versions in
VersionOrders(db, modelId) ==
  LET vs == VersionsOf(db, modelId)
  IN {o \in [1..Cardinality(vs) -> vs] :
        /\ \A i, j \in DOMAIN o : i # j => o[i] # o[j]
        /\ \A i, j \in DOMAIN o :
             i < j => db.versions[o[i]].index <= db.versions[o[j]].index}

\* the nested update of one version (lines 439-533): its columns, then its
\* files (deleteMany, create, update)
UpdateVersion(db, status, cur, index) ==
  LET id == cur.id
      fs == cur.files
      fileIds == {fs[j].id : j \in {k \in 1..Len(fs) : fs[k].id # 0}}
      existingFiles == FilesOf(db, id)
      filesToCreate == SelectSeq(fs, LAMBDA f : f.id = 0)
      filesToUpdate == SelectSeq(fs, LAMBDA f : f.id # 0 /\ f.id \in existingFiles)
      kept == IF fileIds # {}
                THEN DOMAIN db.files \ (existingFiles \ fileIds)
                ELSE DOMAIN db.files
      db1 == [db EXCEPT
                !.versions[id] = [@ EXCEPT !.name = cur.name, !.index = index,
                                           !.status = status],
                !.files = Restrict(@, kept),
                !.hashes = {h \in @ : h.fileId \in kept}]
      created == [f \in (db1.seq.file + 1)..(db1.seq.file + Len(filesToCreate)) |->
                    NewFile(id, filesToCreate[f - db1.seq.file])]
      db2 == [db1 EXCEPT !.files = @ @@ created,
                         !.seq.file = @ + Len(filesToCreate)]
      upd(f) == CHOOSE j \in 1..Len(filesToUpdate) : filesToUpdate[j].id = f
  IN [db2 EXCEPT !.files =
        [f \in DOMAIN @ |->
           IF \E j \in 1..Len(filesToUpdate) : filesToUpdate[j].id = f
             THEN [@[f] EXCEPT !.type = filesToUpdate[upd(f)].type,
                               !.format = filesToUpdate[upd(f)].format,
                               !.url = filesToUpdate[upd(f)].url]
             ELSE @[f]]]

RECURSIVE UpdateVersions(_, _, _, _)
UpdateVersions(db, status, parsed, todo) ==
  IF todo = <<>> THEN db
  ELSE UpdateVersions(UpdateVersion(db, status, parsed[Head(todo)], Head(todo) - 1),
                      status, parsed, Tail(todo))

\* the unique index on (modelVersionId, type, format)
UniqueFiles(db) ==
  \A f, g \in DOMAIN db.files :
    (/\ f # g
     /\ db.files[f].modelVersionId = db.files[g].modelVersionId
     /\ db.files[f].type = db.files[g].type)
      => db.files[f].format # db.files[g].format

\* order: the order in which findMany returned the model's versions
updateModel(db, input, order) ==
  LET parsed == input.modelVersions
      id == input.id
      positions == [i \in 1..Len(parsed) |-> i]
      matched(cur) == IndexOf(order, cur.id)
      different(cur) ==
        IF matched(cur) = 0 THEN FALSE
        ELSE IF matched(cur) > Len(parsed) THEN TRUE
        ELSE ~isEqualVersion(db, order[matched(cur)], parsed[matched(cur)])
      toCreate == SelectSeq(positions, LAMBDA i : parsed[i].id = 0)
      toUpdate == SelectSeq(positions,
                            LAMBDA i : parsed[i].id # 0 /\ different(parsed[i]))
      versionIds == {parsed[i].id : i \in {k \in 1..Len(parsed) : parsed[k].id # 0}}
      keptVersions == IF versionIds # {}
                        THEN DOMAIN db.versions \ (VersionsOf(db, id) \ versionIds)
                        ELSE DOMAIN db.versions
      keptFiles == {f \in DOMAIN db.files : db.files[f].modelVersionId \in keptVersions}
      db1 == [db EXCEPT
                !.models[id].status = input.status,
                !.versions = Restrict(@, keptVersions),
                !.files = Restrict(@, keptFiles),
                !.hashes = {h \in @ : h.fileId \in keptFiles}]
      newVersions == [k \in 1..Len(toCreate) |-> parsed[toCreate[k]]]
      \* a created version takes the schema's default status
      status == [k \in 1..Len(toCreate) |-> "Draft"]
      index == [k \in 1..Len(toCreate) |-> toCreate[k] - 1]
      db2 == CreateVersions(db1, id, newVersions, status, index)
      db3 == UpdateVersions(db2, input.status, parsed, toUpdate)
  IN IF prepareModelVersions(parsed)
       THEN [db |-> db, res |-> ModelRes("updateModel", "CONFLICT", id)]
     ELSE IF id \notin DOMAIN db.models
       THEN [db |-> db, res |-> ModelRes("updateModel", "NOT_FOUND", id)]
     ELSE IF ~UniqueFiles(db3)
       THEN [db |-> db, res |-> ModelRes("updateModel", "DB_ERROR", id)]
     ELSE [db |-> db3, res |-> ModelRes("updateModel", "OK", id)]

(***************************** download endpoint ***************************)
\* the 'ip-blacklist' row of the KeyValue table, split on ','
ipBlacklist == {"203.0.113.9"}

\* Primary-file selection: the files that match the preference when some do,
\* all files otherwise; among those the first in the default order
\* (SafeTensor, PickleTensor, Other; then the oldest row).  0 when there is
\* no file.
FormatRank(format) ==
  CASE format = "SafeTensor" -> 0 [] format = "PickleTensor" -> 1 [] OTHER -> 2

getPrimaryFile(db, fileIds, preferences) ==
  LET matches(f) ==
        /\ preferences.type.some => db.files[f].type = preferences.type.val
        /\ preferences.format.some => db.files[f].format = preferences.format.val
      preferred == {f \in fileIds : matches(f)}
      pool == IF preferred # {} THEN preferred ELSE fileIds
      before(f, g) ==
        \/ FormatRank(db.files[f].format) < FormatRank(db.files[g].format)
        \/ FormatRank(db.files[f].format) = FormatRank(db.files[g].format) /\ f <= g
  IN IF fileIds = {} THEN 0
     ELSE CHOOSE f \in pool : \A g \in pool : before(f, g)

\* the format filter is not applied
FilteredFiles_TypeOnly(db, r) ==
  {f \in FilesOf(db, r.modelVersionId.val) :
     r.type.some => db.files[f].type = r.type.val}

\* files reported missing left out
FilteredFiles_ExistingOnly(db, r) ==
  {f \in FilesOf(db, r.modelVersionId.val) :
     /\ r.type.some => db.files[f].type = r.type.val
     /\ r.format.some => db.files[f].format = r.format.val
     /\ db.files[f].exists # Some(FALSE)}

\* modelVersion.files: the version's files that pass fileWhere
FilteredFiles(db, r) ==
  {f \in FilesOf(db, r.modelVersionId.val) :
     /\ r.type.some => db.files[f].type = r.type.val
     /\ r.format.some => db.files[f].format = r.format.val}

\* the session's preferences are not passed on
ResolvedFiles_IgnoresSession(db, r) ==
  IF r.type.some \/ r.format.some
    THEN IF FilteredFiles(db, r) = {} THEN {0} ELSE FilteredFiles(db, r)
    ELSE {getPrimaryFile(db, FilteredFiles(db, r), [type |-> None, format |-> None])}

\* The files the request may resolve to ({0}: none).  With an explicit type or
\* format it is modelVersion.files[0], and the query states no order.
ResolvedFiles(db, r) ==
  IF r.type.some \/ r.format.some
    THEN IF FilteredFiles(db, r) = {} THEN {0} ELSE FilteredFiles(db, r)
    ELSE {getPrimaryFile(db, FilteredFiles(db, r),
            [type |-> IF r.session.some /\ r.session.val.preferredPrunedModel
                        THEN Some("Pruned Model") ELSE None,
             format |-> IF r.session.some THEN r.session.val.preferredModelFormat
                        ELSE None])}

DownloadRes(status, redirect, fileId) ==
  [op |-> "download", status |-> status, redirect |-> redirect, fileId |-> fileId]

\* the address and client string stored whoever the caller is
DownloadActivity_AlwaysCaptures(db, r) ==
  [userId |-> IF r.session.some THEN Some(r.session.val.id) ELSE None,
   activity |-> "ModelDownload",
   details |-> [modelId |-> db.versions[r.modelVersionId.val].modelId,
                modelVersionId |-> r.modelVersionId.val,
                ip |-> r.ip, userAgent |-> r.userAgent]]

\* the UserActivity row of lines 72-88
DownloadActivity(db, r) ==
  LET userId == IF r.session.some THEN Some(r.session.val.id) ELSE None
  IN [userId |-> userId, activity |-> "ModelDownload",
      details |-> [modelId |-> db.versions[r.modelVersionId.val].modelId,
                   modelVersionId |-> r.modelVersionId.val,
                   ip |-> IF userId.some THEN None ELSE r.ip,
                   userAgent |-> IF userId.some THEN None ELSE r.userAgent]]

\* the event written for authenticated callers only
CreateActivity_MembersOnly(db, r) ==
  IF r.session.some
    THEN [db EXCEPT !.activities = Append(@, DownloadActivity(db, r))]
    ELSE db

\* prisma.userActivity.create (lines 72-88), when it does not throw
CreateActivity(db, r) ==
  [db EXCEPT !.activities = Append(@, DownloadActivity(db, r))]

RequiresLogin_FlagInverted(config, r) ==
  config.UNAUTHENTICATED_DOWNLOAD /\ ~r.session.some

\* !env.UNAUTHENTICATED_DOWNLOAD && !userId
RequiresLogin(config, r) ==
  ~config.UNAUTHENTICATED_DOWNLOAD /\ ~r.session.some

\* r: the request; file: the row files[0] / getPrimaryFile gave (0: none);
\* createFails: whether prisma.userActivity.create throws.
downloadModel(db, config, r, file, createFails) ==
  IF r.ip.some /\ r.ip.val \in ipBlacklist
    THEN [db |-> db, res |-> DownloadRes(403, "none", 0)]
  ELSE IF ~r.modelVersionId.some
    THEN [db |-> db, res |-> DownloadRes(400, "none", 0)]
  ELSE IF r.modelVersionId.val = 0
    THEN [db |-> db, res |-> DownloadRes(400, "none", 0)]
  ELSE IF r.modelVersionId.val \notin DOMAIN db.versions
    THEN [db |-> db, res |-> DownloadRes(404, "none", 0)]
  ELSE IF file = 0
    THEN [db |-> db, res |-> DownloadRes(404, "none", 0)]
  ELSE IF RequiresLogin(config, r)
    THEN IF r.contentType = Some("application/json")
           THEN [db |-> db, res |-> DownloadRes(401, "none", 0)]
           ELSE [db |-> db, res |-> DownloadRes(307, "login", 0)]
  ELSE IF createFails
    THEN [db |-> db, res |-> DownloadRes(500, "none", 0)]
  ELSE [db |-> CreateActivity(db, r),
        res |-> DownloadRes(307, "signed", file)]

(***************************** download file name **************************)
\* File and model names are sequences of tokens: words, and the separators
\* " ", "-", "_" and ".".
Words == {"my", "model", "mymodel", "v1", "v2", "foo", "bar", "ckpt", "pt",
          "zip", "inpainting", "weights", "neg", "trainingData", "txt"}

\* the file types the naming function tells apart, and those it is typed over
modelFileTypes ==
  {"Model", "Text Encoder", "Pruned Model", "Negative", "Training Data", "VAE",
   "Config"}

\* every token that is not a word becomes "_"
filenamize(value) ==
  [i \in 1..Len(value) |-> IF value[i] \in Words THEN value[i] ELSE "_"]

\* String.prototype.replace with a string pattern: the first occurrence only
ReplaceFirst(s, sub, by) ==
  IF ~Includes(s, sub) THEN s
  ELSE LET i == CHOOSE k \in 0..(Len(s) - Len(sub)) :
                  /\ SubSeq(s, k + 1, k + Len(sub)) = sub
                  /\ \A j \in 0..(k - 1) : SubSeq(s, j + 1, j + Len(sub)) # sub
       IN SubSeq(s, 1, i) \o by \o SubSeq(s, i + Len(sub) + 1, Len(s))

\* file.name.split('.').pop(): what follows the last '.', the whole name when
\* it has none
LastPart(name) ==
  IF "." \notin Range(name) THEN name
  ELSE LET last == CHOOSE i \in 1..Len(name) :
                     name[i] = "." /\ \A j \in (i + 1)..Len(name) : name[j] # "."
       IN SubSeq(name, last + 1, Len(name))

\* the suffix forgotten
NegativeSuffix_Dropped(fileType) == <<>>

\* fileSuffix of lines 119-120
NegativeSuffix(fileType) ==
  IF fileType = "Negative" THEN <<"-", "neg">> ELSE <<>>

\* the text-encoder test made before the inpainting test
VariantSuffix_TextEncoderFirst(fileName, fileType) ==
  IF fileType = "Text Encoder" THEN <<"_", "txt">>
  ELSE IF Includes(fileName, <<"-", "inpainting">>) THEN <<"-", "inpainting">>
  ELSE <<>>

\* fileSuffix of lines 124-126
VariantSuffix(fileName, fileType) ==
  IF Includes(fileName, <<"-", "inpainting">>) THEN <<"-", "inpainting">>
  ELSE IF fileType = "Text Encoder" THEN <<"_", "txt">>
  ELSE <<>>

getDownloadFilename(model, modelVersion, file) ==
  LET modelName == filenamize(model.name)
      versionName == ReplaceFirst(filenamize(modelVersion.name), modelName, <<>>)
      ext == LastPart(file.name)
      trainedWord == IF Len(modelVersion.trainedWords) > 0
                       THEN Some(modelVersion.trainedWords[1]) ELSE None
  IN IF file.type \notin modelFileTypes THEN file.name
     ELSE IF file.type = "Training Data"
       THEN modelName \o <<"_">> \o versionName \o <<"_", "trainingData", ".", "zip">>
     ELSE IF model.type = "TextualInversion"
       THEN IF trainedWord.some /\ trainedWord.val # <<>>
              THEN trainedWord.val \o NegativeSuffix(file.type) \o <<".">> \o ext
              ELSE file.name
     ELSE IF file.type # "VAE"
       THEN modelName \o <<"_">> \o versionName
              \o VariantSuffix(file.name, file.type) \o <<".">> \o ext
     ELSE file.name

(***************************** user handlers *******************************)
\* The services (updateUserById, deleteUser, getUserById, getUserTags, ...)
\* are calls to the database client.  svc is what the call did: "ok" (it
\* found the row), "null" (it found none and returned null) or "throws" (the
\* client threw).
ServiceOutcomes(db, id) ==
  (IF id \in DOMAIN db.users THEN {"ok"} ELSE {"null"}) \cup {"throws"}

\* errors that are TRPCErrors already
TypedErrors == {"NOT_FOUND", "UNAUTHORIZED"}

\* throwDbError: whatever it is given leaves as a database error
throwDbError(error) == "DB_ERROR"

\* a catch block: with `if (error instanceof TRPCError) throw error` typed
\* errors pass, everything else goes through throwDbError
Catch(rethrows, error) ==
  IF rethrows /\ error \in TypedErrors THEN error ELSE throwDbError(error)

\* raised: the error raised inside the handler ("none": it returned)
UserRes(op, status, raised) == [op |-> op, status |-> status, raised |-> raised]

\* the body of a try block around one service call that answers null for a
\* missing row: what it raises
Raised(svc) ==
  CASE svc = "ok" -> "none" [] svc = "null" -> "NOT_FOUND" [] OTHER -> "raw"

Settle(op, rethrows, svc) ==
  IF Raised(svc) = "none" THEN UserRes(op, "OK", "none")
  ELSE UserRes(op, Catch(rethrows, Raised(svc)), Raised(svc))

\* the owner test applied to the session's user only when an id is given
Owns_AbsentIdPasses(ctx, input) ==
  input.id.some => input.id.val = ctx.user.id

\* id !== currentUser.id is what raises the authorization error
Owns(ctx, input) == input.id = Some(ctx.user.id)

updateUserHandler(db, ctx, input, svc) ==
  IF ~Owns(ctx, input)
    THEN [db |-> db, res |-> UserRes("updateUser", "UNAUTHORIZED", "UNAUTHORIZED")]
  ELSE [db |-> IF svc = "ok"
                 THEN [db EXCEPT !.users[ctx.user.id].username = input.username]
                 ELSE db,
        res |-> Settle("updateUser", TRUE, svc)]

deleteUserHandler(db, ctx, input, svc) ==
  IF ~Owns(ctx, input)
    THEN [db |-> db, res |-> UserRes("deleteUser", "UNAUTHORIZED", "UNAUTHORIZED")]
  ELSE [db |-> IF svc = "ok"
                 THEN [db EXCEPT !.users = Restrict(@, DOMAIN @ \ {ctx.user.id})]
                 ELSE db,
        res |-> Settle("deleteUser", TRUE, svc)]

\* the handlers that read one user and rethrow typed errors
ReadHandlers ==
  {"getUserById", "getNotificationSettings", "checkUserNotifications",
   "getUserEngagedModels", "getUserEngagedModelVersions", "getUserFollowingList",
   "getUserLists", "getUserHiddenList", "getUserTags"}

readUserHandler(db, op, svc) == [db |-> db, res |-> Settle(op, TRUE, svc)]

\* tagsEngaged after deleteMany(tagsToRemove) and the upserts to Hide
BlockTags(tagsEngaged, tagIds) ==
  LET blockedTagIds == {t \in DOMAIN tagsEngaged : tagsEngaged[t] = "Hide"}
      tagsToRemove == blockedTagIds \ tagIds
      keptTags == DOMAIN tagsEngaged \ tagsToRemove
  IN [t \in keptTags \cup tagIds |-> "Hide"]
       @@ Restrict(tagsEngaged, keptTags)

\* the catch block of batchBlockTagsHandler has no TRPCError test
batchBlockTagsHandler(db, ctx, input, svc) ==
  [db |-> IF svc = "ok"
            THEN [db EXCEPT !.users[ctx.user.id].tagsEngaged = BlockTags(@, input.tagIds)]
            ELSE db,
   res |-> Settle("batchBlockTags", FALSE, svc)]

(***************************** inputs **************************************)
TmpUrl == <<"https://", "uploads-tmp", "/", "model.ckpt">>
ScannerTmpUrl == <<"https://", "scanner-tmp", "/", "model.ckpt">>
BucketUrl == <<"https://", "model-share", "/", "model.ckpt">>
BucketUrl2 == <<"https://", "model-share", "/", "moved", "/", "model.ckpt">>

InFile(type, format) == [id |-> 0, type |-> type, format |-> format, url |-> TmpUrl]

InVersion(name, fs) == [id |-> 0, name |-> name, files |-> fs]

\* a model with two versions (the first with two files) ...
TwoVersions(status) ==
  [status |-> status,
   modelVersions |->
     <<InVersion("v1", <<InFile("Model", "SafeTensor"), InFile("Model", "PickleTensor")>>),
       InVersion("v2", <<InFile("Model", "SafeTensor")>>)>>]

\* ... and one with a single version holding a single file
OneVersion(status) ==
  [status |-> status,
   modelVersions |-> <<InVersion("v1", <<InFile("Model", "PickleTensor")>>)>>]

\* the store after the two createModel calls
CreatedDB(s1, s2) ==
  createModel(createModel(EmptyDB, TwoVersions(s1)).db, OneVersion(s2)).db

\* pickle import strings as the scanner reports them
OsSystem == <<"os", ",", "system">>
OrderedDict == <<"collections", ",", "OrderedDict">>
CheckpointPlain ==
  <<"pytorch_lightning", ".", "callbacks", ".", "model_checkpoint", ",",
    "ModelCheckpoint">>
CheckpointEncoded ==
  <<"%27", "pytorch_lightning", ".", "callbacks", ".", "model_checkpoint", "%27",
    "%2C", "%20", "%27", "ModelCheckpoint", "%27">>

ImportStrings == {OsSystem, OrderedDict, CheckpointPlain, CheckpointEncoded}

ImportLists == {None} \cup {Some(l) : l \in SeqsUpTo(ImportStrings, MaxImports)}

Body(fileExists, url, pExit, cExit, dangerous, globals, hs) ==
  [url |-> url, fileExists |-> fileExists,
   picklescanExitCode |-> pExit,
   picklescanDangerousImports |-> dangerous,
   picklescanGlobalImports |-> globals,
   clamscanExitCode |-> cExit, clamscanOutput |-> <<"stream: FOUND">>,
   hashes |-> hs]

IntakeReq(method, versionId, type, format, tasks, body) ==
  [op |-> "intake", method |-> method, modelVersionId |-> versionId,
   type |-> type, format |-> format, tasks |-> tasks, body |-> body]

NoReq == [op |-> "none"]
NoRes == [op |-> "none"]

(***************************** SpecScan ************************************)
\* One Scan call on a freshly created file, over every scanner payload.
ScanRequests ==
  {IntakeReq("POST", 1, "Model", "PickleTensor", tasks,
             Body(1, BucketUrl, pExit, cExit, d, g, None)) :
     tasks \in {None, Some(<<"Scan">>)},
     pExit \in ScanExitCodes, cExit \in ScanExitCodes,
     d \in ImportLists, g \in ImportLists}

\* .env-example
EnvExample == [UNAUTHENTICATED_DOWNLOAD |-> TRUE]

Configs == [UNAUTHENTICATED_DOWNLOAD : BOOLEAN]

Apply(out, r) ==
  /\ models' = out.db.models
  /\ versions' = out.db.versions
  /\ files' = out.db.files
  /\ hashes' = out.db.hashes
  /\ seq' = out.db.seq
  /\ activities' = out.db.activities
  /\ users' = out.db.users
  /\ calls' = calls
  /\ alert' = alert
  /\ res' = out.res
  /\ env' = env
  /\ req' = r
  /\ prev' = DB
  /\ now' = now + 1

StartStore(db, config) ==
  /\ models = db.models
  /\ versions = db.versions
  /\ files = db.files
  /\ hashes = db.hashes
  /\ seq = db.seq
  /\ env = config
  /\ activities = db.activities
  /\ users = db.users
  /\ calls = <<>>
  /\ now = 0
  /\ res = NoRes
  /\ prev = db

\* ... with no component mounted
Start(db, config) == StartStore(db, config) /\ alert = [mounted |-> FALSE]

InitScan ==
  /\ Start(createModel(EmptyDB, OneVersion("Published")).db, EnvExample)
  /\ req \in ScanRequests

ScanCall ==
  /\ res = NoRes
  /\ Apply(WebhookEndpoint(DB, req, now), req)

NextScan == ScanCall

SpecScan == InitScan /\ [][NextScan]_vars

(***************************** SpecFilename ********************************)
\* getDownloadFilename applied to every combination of the names below.
ModelNames == {<<"mymodel">>, <<"my", " ", "model">>}

VersionNames == {<<"v1">>, <<"mymodel", " ", "v2">>}

TrainedWordLists == {<<>>, << <<"foo">> >>, << <<>> >>, << <<"foo">>, <<"bar">> >>}

FileNames ==
  {<<"mymodel", "-", "inpainting", ".", "ckpt">>,
   <<"weights", ".", "v2", ".", "pt">>,
   <<"weights">>}

FilenameInputs ==
  {[op |-> "filename",
    model |-> [name |-> mn, type |-> mt],
    modelVersion |-> [name |-> vn, trainedWords |-> tw],
    file |-> [name |-> fn, type |-> ft]] :
     mn \in ModelNames, mt \in {"TextualInversion", "Checkpoint"},
     vn \in VersionNames, tw \in TrainedWordLists, fn \in FileNames,
     ft \in {"Model", "Negative", "Training Data", "VAE", "Text Encoder", "Unlisted"}}

InitFilename ==
  /\ Start(EmptyDB, EnvExample)
  /\ req \in FilenameInputs

FilenameCall ==
  /\ res = NoRes
  /\ res' = [op |-> "filename",
             fileName |-> getDownloadFilename(req.model, req.modelVersion, req.file)]
  /\ now' = now + 1
  /\ prev' = DB
  /\ UNCHANGED <<alert, calls, models, versions, files, hashes, seq, env, activities,
                 users, req>>

NextFilename == FilenameCall

SpecFilename == InitFilename /\ [][NextFilename]_vars

(***************************** SpecIntake **********************************)
\* Sequences of webhook calls on a store that createModel has filled.
H1 == ("SHA256" :> "aa") @@ ("AutoV1" :> "a1")
H2 == ("SHA256" :> "bb") @@ ("CRC32" :> "c2")
NoHashes == [k \in {} |-> "aa"]

QuietBody(fileExists, url, hs) ==
  Body(fileExists, url, ScanExitCode.Success, ScanExitCode.Success, None, None, hs)

TaskBodies ==
  ({Some(<<"Import">>)} \X {QuietBody(e, u, None) :
                                e \in {0, 1}, u \in {ScannerTmpUrl, BucketUrl, BucketUrl2}})
  \cup ({Some(<<"Hash">>)} \X {QuietBody(1, BucketUrl, h) :
                                  h \in {None, Some(NoHashes), Some(H1), Some(H2)}})
  \cup ({Some(<<"Scan">>)} \X {Body(1, BucketUrl, ScanExitCode.Success, ScanExitCode.Danger,
                                     Some(<<OsSystem>>), Some(<<CheckpointEncoded>>), None)})
  \cup ({Some(<<"Convert">>)} \X {QuietBody(0, BucketUrl, Some(H1))})
  \cup ({None} \X {QuietBody(e, u, Some(H2)) : e \in {0, 1}, u \in {ScannerTmpUrl, BucketUrl}})

IntakeKeys == (1..3) \X {"Model"} \X {"SafeTensor", "PickleTensor"}

IntakeRequests ==
  {IntakeReq("POST", k[1], k[2], k[3], tb[1], tb[2]) : k \in IntakeKeys, tb \in TaskBodies}
  \cup {IntakeReq("GET", 1, "Model", "SafeTensor", None, QuietBody(0, BucketUrl, Some(H1)))}

InitIntake ==
  /\ \E s \in ModelStatus : Start(CreatedDB(s, s), EnvExample)
  /\ req = NoReq

IntakeCall ==
  /\ now < MaxCalls
  /\ \E r \in IntakeRequests : Apply(WebhookEndpoint(DB, r, now), r)

NextIntake == IntakeCall

SpecIntake == InitIntake /\ [][NextIntake]_vars

(***************************** SpecDownload ********************************)
\* Download requests on a store that createModel has filled.
Member == [id |-> 7, preferredPrunedModel |-> FALSE,
           preferredModelFormat |-> Some("PickleTensor")]

PrunedMember == [id |-> 8, preferredPrunedModel |-> TRUE,
                 preferredModelFormat |-> Some("SafeTensor")]

\* a model whose single version has a full and a pruned variant
Variants(status) ==
  [status |-> status,
   modelVersions |->
     <<InVersion("v1", <<InFile("Model", "PickleTensor"),
                         InFile("Model", "SafeTensor"),
                         InFile("Pruned Model", "SafeTensor")>>)>>]

VariantsDB == createModel(EmptyDB, Variants("Published")).db

DownloadReq(ip, versionId, type, format, session, contentType) ==
  [op |-> "download", ip |-> ip, modelVersionId |-> versionId, type |-> type,
   format |-> format, session |-> session, contentType |-> contentType,
   userAgent |-> Some("curl/8")]

\* the same request without a user-agent header
Headless(r) == [r EXCEPT !.userAgent = None]

DownloadRequests ==
  LET sent == {DownloadReq(ip, v, t, f, u, c) :
                 ip \in {Some("198.51.100.7"), Some("203.0.113.9")},
                 v \in {None, Some(1), Some(3), Some(9)},
                 t \in {None, Some("Model"), Some("VAE")},
                 f \in {None, Some("SafeTensor")},
                 u \in {None, Some(Member), Some(PrunedMember)},
                 c \in {None, Some("application/json")}}
  IN sent \cup {Headless(r) : r \in {q \in sent : ~q.type.some /\ ~q.format.some
                                                      /\ ~q.contentType.some}}

\* the request together with what the environment did to it: whether
\* prisma.userActivity.create threw
Attempt(r, createFails) ==
  [op |-> r.op, ip |-> r.ip, modelVersionId |-> r.modelVersionId,
   type |-> r.type, format |-> r.format, session |-> r.session,
   contentType |-> r.contentType, userAgent |-> r.userAgent,
   createFails |-> createFails]

\* the files a request may be resolved to; none is looked up before the
\* version is known to exist
FileChoices(db, r) ==
  IF r.modelVersionId.some /\ r.modelVersionId.val \in DOMAIN db.versions
    THEN ResolvedFiles(db, r) ELSE {0}

InitDownload ==
  /\ \E db \in {CreatedDB("Published", "Published"), VariantsDB}, c \in Configs :
       Start(db, c)
  /\ req = NoReq

DownloadCall ==
  /\ now < MaxDownloads
  /\ \E r \in DownloadRequests, createFails \in BOOLEAN :
       \E file \in FileChoices(DB, r) :
         Apply(downloadModel(DB, env, r, file, createFails),
               Attempt(r, createFails))

NextDownload == DownloadCall

SpecDownload == InitDownload /\ [][NextDownload]_vars

(***************************** Spec ****************************************)
\* The life of the store: models are created and updated, the scanner calls
\* back, files are downloaded.
Conflicting(status) ==
  [status |-> status,
   modelVersions |->
     <<InVersion("v1", <<InFile("Model", "SafeTensor"), InFile("Model", "SafeTensor")>>)>>]

CreateInputs ==
  {OneVersion(s) : s \in {"Draft", "Published"}}
  \cup {TwoVersions("Published"), Conflicting("Published")}

RECURSIVE SetToSeq(_)
\* a set of ids in ascending order
SetToSeq(S) ==
  IF S = {} THEN <<>>
  ELSE LET m == CHOOSE x \in S : \A y \in S : x <= y
       IN <<m>> \o SetToSeq(S \ {m})

\* a stored version as the edit form sends it back
Echo(db, v) ==
  LET fs == SetToSeq(FilesOf(db, v))
  IN [id |-> v, name |-> db.versions[v].name,
      files |-> [j \in 1..Len(fs) |->
                   [id |-> fs[j], type |-> db.files[fs[j]].type,
                    format |-> db.files[fs[j]].format, url |-> db.files[fs[j]].url]]]

EchoAll(db, modelId) ==
  LET vs == SetToSeq(VersionsOf(db, modelId))
  IN [i \in 1..Len(vs) |-> Echo(db, vs[i])]

NewVersion == InVersion("v-new", <<InFile("Model", "SafeTensor")>>)

UpdatePayloads(db, modelId) ==
  LET all == EchoAll(db, modelId)
  IN IF all = <<>> THEN {<<NewVersion>>}
     ELSE {all,
           [all EXCEPT ![1].name = "v1-edited"],
           [all EXCEPT ![1].files = <<>>],
           Append(all, NewVersion),
           <<NewVersion>>,
           SubSeq(all, 1, Len(all) - 1) \o <<InVersion("v-new", <<>>)>>}

UpdateInputs(db) ==
  UNION {{[id |-> m, status |-> s, modelVersions |-> p] :
            s \in {"Draft", "Published"}, p \in UpdatePayloads(db, m)} :
         m \in DOMAIN db.models}
  \cup {[id |-> db.seq.model + 1, status |-> "Published", modelVersions |-> <<NewVersion>>]}

\* the scanner's callbacks for the files of the store
ScannerRequests(db) ==
  {IntakeReq("POST", db.files[f].modelVersionId, db.files[f].type, db.files[f].format,
             Some(<<"Import">>), QuietBody(e, BucketUrl, None)) :
     f \in DOMAIN db.files, e \in {0, 1}}

VisitorRequests(db) ==
  {DownloadReq(Some("198.51.100.7"), Some(v), None, None, u, None) :
     v \in DOMAIN db.versions, u \in {None, Some(Member)}}

Init ==
  /\ \E c \in Configs : Start(EmptyDB, c)
  /\ req = NoReq

CreateModel ==
  /\ now < MaxOps
  /\ \E input \in CreateInputs :
       Apply(createModel(DB, input), [op |-> "createModel", input |-> input])

UpdateModel ==
  /\ now < MaxOps
  /\ \E input \in UpdateInputs(DB) :
       \E order \in IF input.id \in DOMAIN models
                       THEN VersionOrders(DB, input.id) ELSE {<<>>} :
         Apply(updateModel(DB, input, order), [op |-> "updateModel", input |-> input])

ScanResult ==
  /\ now < MaxOps
  /\ \E r \in ScannerRequests(DB) : Apply(WebhookEndpoint(DB, r, now), r)

Download ==
  /\ now < MaxOps
  /\ \E r \in VisitorRequests(DB) :
       \E file \in FileChoices(DB, r) :
         Apply(downloadModel(DB, env, r, file, FALSE), Attempt(r, FALSE))

Next == CreateModel \/ UpdateModel \/ ScanResult \/ Download

Spec == Init /\ [][Next]_vars

(***************************** SpecEdit ************************************)
\* Sequences of createModel and updateModel calls, the payloads of Spec and
\* payloads that repeat a (type, format) pair.
ClashingPayloads(db, modelId) ==
  LET all == EchoAll(db, modelId)
      twin(fs) == InFile(fs[1].type, fs[1].format)
  IN IF all = <<>> \/ all[1].files = <<>> THEN {}
     ELSE {\* a new file next to the stored file it repeats
           [all EXCEPT ![1].files = Append(@, twin(@))],
           \* the new file alone: the stored file is not in the payload
           [all EXCEPT ![1].files = <<twin(@)>>],
           \* the repeated pair in a version that is yet to be created
           Append(all, InVersion("v-new", <<InFile("VAE", "Other"), InFile("VAE", "Other")>>))}

EditInputs(db) ==
  UpdateInputs(db)
  \cup UNION {{[id |-> m, status |-> "Published", modelVersions |-> p] :
                 p \in ClashingPayloads(db, m)} : m \in DOMAIN db.models}
  \cup {[id |-> db.seq.model + 1, status |-> "Published",
         modelVersions |-> Conflicting("Published").modelVersions]}

InitEdit ==
  /\ Start(EmptyDB, EnvExample)
  /\ req = NoReq

CreateCall ==
  /\ now < MaxEdits
  /\ \E input \in CreateInputs :
       Apply(createModel(DB, input), [op |-> "createModel", input |-> input])

UpdateCall ==
  /\ now < MaxEdits
  /\ \E input \in EditInputs(DB) :
       \E order \in IF input.id \in DOMAIN models
                       THEN VersionOrders(DB, input.id) ELSE {<<>>} :
         Apply(updateModel(DB, input, order), [op |-> "updateModel", input |-> input])

NextEdit == CreateCall \/ UpdateCall

SpecEdit == InitEdit /\ [][NextEdit]_vars

(***************************** SpecUser ************************************)
\* Calls of the user handlers by the sessions of two users that have a row
\* and of one that has none.
UserRow(username, tagsEngaged) == [username |-> username, tagsEngaged |-> tagsEngaged]

UsersDB ==
  [EmptyDB EXCEPT
     !.users = (1 :> UserRow("alice", (10 :> "Hide") @@ (11 :> "Follow")))
               @@ (2 :> UserRow("bob", (12 :> "Hide")))]

Sessions == {[user |-> [id |-> u]] : u \in {1, 2, 3}}

UpdateUserInputs ==
  {[id |-> i, username |-> n] :
     i \in {None, Some(1), Some(2), Some(3)}, n \in {"carol", "dave"}}

DeleteUserInputs == {[id |-> Some(i)] : i \in {1, 2, 3}}

BatchInputs == {[tagIds |-> T] : T \in SUBSET {10, 11}}

UserCall(op, ctx, input) == [op |-> op, ctx |-> ctx, input |-> input]

InitUser ==
  /\ Start(UsersDB, EnvExample)
  /\ req = NoReq

UpdateUser ==
  /\ now < MaxUserCalls
  /\ \E ctx \in Sessions, input \in UpdateUserInputs :
       \E svc \in ServiceOutcomes(DB, ctx.user.id) :
         Apply(updateUserHandler(DB, ctx, input, svc), UserCall("updateUser", ctx, input))

DeleteUser ==
  /\ now < MaxUserCalls
  /\ \E ctx \in Sessions, input \in DeleteUserInputs :
       \E svc \in ServiceOutcomes(DB, ctx.user.id) :
         Apply(deleteUserHandler(DB, ctx, input, svc), UserCall("deleteUser", ctx, input))

ReadUser ==
  /\ now < MaxUserCalls
  /\ \E op \in ReadHandlers, ctx \in Sessions :
       \E svc \in ServiceOutcomes(DB, ctx.user.id) :
         Apply(readUserHandler(DB, op, svc), UserCall(op, ctx, [id |-> Some(ctx.user.id)]))

BatchBlockTags ==
  /\ now < MaxUserCalls
  /\ \E ctx \in Sessions, input \in BatchInputs :
       \E svc \in ServiceOutcomes(DB, ctx.user.id) :
         Apply(batchBlockTagsHandler(DB, ctx, input, svc),
               UserCall("batchBlockTags", ctx, input))

NextUser == UpdateUser \/ DeleteUser \/ ReadUser \/ BatchBlockTags

SpecUser == InitUser /\ [][NextUser]_vars

(***************************** claims: intake ******************************)
TasksOf(r) ==
  IF r.tasks.some THEN Range(r.tasks.val) ELSE {"Import", "Scan", "Hash"}

\* the last operation was a webhook call answered 200
IntakeDone == res.op = "intake" /\ res.status = 200

ListOf(opt) == IF opt.some THEN opt.val ELSE <<>>

ReportsDanger(body) ==
  \/ Len(ListOf(body.picklescanDangerousImports)) > 0
  \/ \E i \in 1..Len(ListOf(body.picklescanGlobalImports)) :
       processImport(body.picklescanGlobalImports.val[i]) \in specialImports

NoImportsReported(body) ==
  /\ ListOf(body.picklescanDangerousImports) = <<>>
  /\ ListOf(body.picklescanGlobalImports) = <<>>

\* C1: after a Scan call that reports a dangerous import, or a global import
\* on the special-import list, the stored pickle scan verdict is Danger,
\* also when picklescanExitCode is Success.
C1_VerdictIsDanger ==
  (IntakeDone /\ "Scan" \in TasksOf(req) /\ ReportsDanger(req.body))
    => files[res.fileId].pickleScanResult = "Danger"

\* C6 as stated: whatever the exit codes, a Scan call with no imports stores
\* the message "No Pickle imports" and computes a false danger flag.
C6_AnyExitCode ==
  (IntakeDone /\ "Scan" \in TasksOf(req) /\ NoImportsReported(req.body))
    => /\ files[res.fileId].pickleScanMessage = Some(NoPickleImports)
       /\ res.hasDanger # Some(TRUE)

\* C6 amended: a Scan call with no imports whose picklescanExitCode is not
\* Pending stores exactly "No Pickle imports" and computes a false danger
\* flag; with Pending the stored message is left as it was and no flag is
\* computed.
C6_NoPickleImports ==
  (IntakeDone /\ "Scan" \in TasksOf(req) /\ NoImportsReported(req.body))
    => IF req.body.picklescanExitCode # ScanExitCode.Pending
         THEN /\ files[res.fileId].pickleScanMessage = Some(NoPickleImports)
              /\ res.hasDanger = Some(FALSE)
         ELSE /\ files[res.fileId].pickleScanMessage
                   = prev.files[res.fileId].pickleScanMessage
              /\ res.hasDanger = None

C6_Witness ==
  /\ IntakeDone /\ "Scan" \in TasksOf(req) /\ NoImportsReported(req.body)
  /\ req.body.picklescanExitCode = ScanExitCode.Danger
  /\ req.body.picklescanGlobalImports = Some(<<>>)
  /\ files[res.fileId].pickleScanMessage = Some(NoPickleImports)

\* the version and model a webhook request is about, in the store db
ReqVersion == req.modelVersionId
ReqModel == prev.versions[ReqVersion].modelId

ReportsMissing ==
  IntakeDone /\ "Import" \in TasksOf(req) /\ req.body.fileExists # 1

PublishedIn(db, modelId) ==
  {v \in VersionsOf(db, modelId) : db.versions[v].status = "Published"}

\* C2: a file of the only Published version of a Published model reported
\* missing leaves the version Draft and the model Unpublished.
C2_OnlyVersionUnpublishesModel ==
  (/\ ReportsMissing
   /\ prev.models[ReqModel].status = "Published"
   /\ PublishedIn(prev, ReqModel) = {ReqVersion})
    => /\ versions[ReqVersion].status = "Draft"
       /\ models[ReqModel].status = "Unpublished"

C2_Witness ==
  /\ ReportsMissing
  /\ prev.models[ReqModel].status = "Published"
  /\ PublishedIn(prev, ReqModel) = {ReqVersion}
  /\ models[ReqModel].status = "Unpublished"

\* C3: a file reported missing while another version of the Published model
\* is still Published leaves the version Draft and the model Published.
C3_OtherVersionKeepsModel ==
  (/\ ReportsMissing
   /\ prev.models[ReqModel].status = "Published"
   /\ PublishedIn(prev, ReqModel) \ {ReqVersion} # {})
    => /\ versions[ReqVersion].status = "Draft"
       /\ models[ReqModel].status = "Published"

C3_Witness ==
  /\ ReportsMissing
  /\ prev.versions[ReqVersion].status = "Published"
  /\ PublishedIn(prev, ReqModel) \ {ReqVersion} # {}
  /\ versions[ReqVersion].status = "Draft"
  /\ models[ReqModel].status = "Published"

HashesOf(rows, fileId) == {h \in rows : h.fileId = fileId}

SuppliesHashes ==
  /\ IntakeDone /\ "Hash" \in TasksOf(req)
  /\ req.body.hashes.some /\ DOMAIN req.body.hashes.val # {}

\* C4: after a Hash call with a non-empty hash map the file's hash records
\* are exactly the supplied map, and the records of other files are as before.
C4_HashesReplaced ==
  SuppliesHashes
    => /\ HashesOf(hashes, res.fileId)
            = {[fileId |-> res.fileId, type |-> k, hash |-> req.body.hashes.val[k]] :
                 k \in DOMAIN req.body.hashes.val}
       /\ \A f \in DOMAIN files :
            f # res.fileId => HashesOf(hashes, f) = HashesOf(prev.hashes, f)

C4_Witness ==
  /\ SuppliesHashes
  /\ HashesOf(prev.hashes, res.fileId) # {}
  /\ \E h \in HashesOf(prev.hashes, res.fileId) : h \notin hashes

NoRowFor(db, r) ==
  ~\E f \in DOMAIN db.files :
      /\ db.files[f].modelVersionId = r.modelVersionId
      /\ db.files[f].type = r.type
      /\ db.files[f].format = r.format

\* C5: a request for a key with no ModelFile row is answered 404, a request
\* that is not a POST 405, and a call answered 404 or 405 writes nothing.
C5_RejectedWritesNothing ==
  res.op = "intake"
    => /\ req.method # "POST" => res.status = 405
       /\ (req.method = "POST" /\ NoRowFor(prev, req)) => res.status = 404
       /\ res.status \in {404, 405} => DB = prev

C5_Witness ==
  /\ res.op = "intake" /\ res.status = 404
  /\ req.modelVersionId \in DOMAIN versions
  /\ "Import" \in TasksOf(req) /\ req.body.fileExists = 0
  /\ hashes # {}

\* C7: a webhook call changes a file's URL only when it runs Import, reports
\* the file as existing, the stored URL does not contain the bucket name and
\* the scanner's URL does; a stored URL that contains it is never changed.
C7_UrlPromotedOneWay ==
  res.op = "intake"
    => \A f \in DOMAIN files :
         /\ files[f].url # prev.files[f].url
              => /\ IntakeDone /\ res.fileId = f
                 /\ "Import" \in TasksOf(req) /\ req.body.fileExists = 1
                 /\ ~Includes(prev.files[f].url, S3_UPLOAD_BUCKET)
                 /\ Includes(req.body.url, S3_UPLOAD_BUCKET)
                 /\ files[f].url = req.body.url
         /\ Includes(prev.files[f].url, S3_UPLOAD_BUCKET)
              => files[f].url = prev.files[f].url

C7_Witness ==
  /\ IntakeDone /\ "Import" \in TasksOf(req) /\ req.body.fileExists = 1
  /\ Includes(prev.files[res.fileId].url, S3_UPLOAD_BUCKET)
  /\ Includes(req.body.url, S3_UPLOAD_BUCKET)
  /\ req.body.url # prev.files[res.fileId].url
  /\ files[res.fileId].url = prev.files[res.fileId].url

(***************************** claims: publication *************************)
\* C8: after every operation, no model is Published while none of its
\* versions is Published.
C8_PublishedModelHasPublishedVersion ==
  \A m \in DOMAIN models :
    models[m].status = "Published" => PublishedIn(DB, m) # {}

NoPreference == [type |-> None, format |-> None]

\* C9: after every operation, no version is Published while its primary file
\* is recorded as no longer existing.
C9_PublishedVersionHasFile ==
  \A v \in DOMAIN versions :
    (versions[v].status = "Published" /\ FilesOf(DB, v) # {})
      => files[getPrimaryFile(DB, FilesOf(DB, v), NoPreference)].exists # Some(FALSE)

(***************************** claims: download ****************************)
\* an unauthenticated request, with downloads for such callers disabled,
\* for a version that exists and a file it resolves to
RefusedCase ==
  /\ res.op = "download"
  /\ ~env.UNAUTHENTICATED_DOWNLOAD /\ ~req.session.some
  /\ req.modelVersionId.some /\ req.modelVersionId.val \in DOMAIN prev.versions
  /\ ResolvedFiles(prev, req) # {0}

RefusedAnswer ==
  /\ IF req.contentType = Some("application/json")
       THEN res.status = 401 /\ res.redirect = "none"
       ELSE res.status = 307 /\ res.redirect = "login"
  /\ activities = prev.activities

Blacklisted == req.ip.some /\ req.ip.val \in ipBlacklist

\* C10 as stated: every such request is answered 401 (JSON) or redirected
\* to the login page, records no activity and gets no signed URL.
C10_AlwaysLoginOr401 == RefusedCase => RefusedAnswer

\* C10 amended: such a request from an address that is not on the ip
\* blacklist is answered 401 (JSON) or redirected to the login page; from a
\* blacklisted address it is answered 403; in every case no activity is
\* recorded and no signed URL is produced.
C10_LoginOr401 ==
  RefusedCase
    => /\ ~Blacklisted => RefusedAnswer
       /\ Blacklisted => res.status = 403
       /\ activities = prev.activities /\ res.redirect # "signed"

C10_Witness ==
  /\ RefusedCase /\ ~Blacklisted
  /\ req.contentType = None /\ req.format.some
  /\ res.status = 307 /\ res.redirect = "login"

\* a download call answered by a redirect to the signed URL
Served == res.op = "download" /\ res.redirect = "signed"

\* the event the call appended
LastActivity == activities[Len(activities)]

\* the call got as far as prisma.userActivity.create
ReachedTracking ==
  /\ res.op = "download"
  /\ res.status \notin {400, 401, 403, 404}
  /\ res.redirect # "login"

\* C11: a download answered by a redirect to the signed URL has appended
\* exactly one ModelDownload event naming the version and its model, with or
\* without a session; when the create throws, the answer is 500, no event is
\* stored and no signed URL is produced.
C11_SignedOnlyAfterEvent ==
  /\ Served =>
       /\ Len(activities) = Len(prev.activities) + 1
       /\ activities = Append(prev.activities, LastActivity)
       /\ LastActivity.activity = "ModelDownload"
       /\ LastActivity.details.modelVersionId = req.modelVersionId.val
       /\ LastActivity.details.modelId = prev.versions[req.modelVersionId.val].modelId
  /\ (ReachedTracking /\ req.createFails) =>
       /\ res.status = 500 /\ res.redirect = "none"
       /\ activities = prev.activities
  /\ (res.op = "download" /\ ~Served) => activities = prev.activities

C11_Witness ==
  /\ Served /\ ~req.session.some
  /\ Len(activities) = 1

\* C12: the event of an unauthenticated download stores the address and the
\* user-agent the request carried; the event of an authenticated download
\* stores neither, only the user's id.
C12_AddressOnlyForAnonymous ==
  Served =>
    IF req.session.some
      THEN /\ LastActivity.userId = Some(req.session.val.id)
           /\ LastActivity.details.ip = None
           /\ LastActivity.details.userAgent = None
      ELSE /\ LastActivity.userId = None
           /\ LastActivity.details.ip = req.ip
           /\ LastActivity.details.userAgent = req.userAgent

C12_Witness ==
  /\ Served /\ req.session.some
  /\ req.ip.some /\ req.userAgent.some
  /\ LastActivity.details.ip = None

\* a download request with an explicit type or format, for a version that
\* exists
ExplicitFilter ==
  /\ res.op = "download"
  /\ req.modelVersionId.some /\ req.modelVersionId.val \in DOMAIN prev.versions
  /\ req.type.some \/ req.format.some

\* the file served is a file of the requested version that passes every
\* supplied filter, whatever the session's preferences
ServedMatchesFilter ==
  /\ Served =>
       /\ res.fileId \in DOMAIN prev.files
       /\ prev.files[res.fileId].modelVersionId = req.modelVersionId.val
       /\ req.type.some => prev.files[res.fileId].type = req.type.val
       /\ req.format.some => prev.files[res.fileId].format = req.format.val
  /\ ResolvedFiles(prev, req) = ResolvedFiles(prev, [req EXCEPT !.session = None])

NoMatch == FilteredFiles(prev, req) = {}

\* C13 as stated: with an explicit filter the file served matches it, and
\* when no file of the version matches the answer is 404 and nothing is
\* recorded.
C13_NoMatchIs404 ==
  ExplicitFilter =>
    /\ ServedMatchesFilter
    /\ NoMatch => res.status = 404 /\ activities = prev.activities

\* C13 amended: as stated for a caller whose address is not on the ip
\* blacklist; a blacklisted caller is answered 403, and nothing is recorded
\* for it either.
C13_FilterDecides ==
  ExplicitFilter =>
    /\ ServedMatchesFilter
    /\ NoMatch =>
         /\ res.status = IF Blacklisted THEN 403 ELSE 404
         /\ activities = prev.activities
    /\ Blacklisted => ~Served

C13_Witness ==
  /\ ExplicitFilter /\ Served
  /\ req.type.some /\ req.format.some
  /\ req.session.some
  /\ prev.files[res.fileId].format # req.session.val.preferredModelFormat.val
  /\ Cardinality(FilesOf(prev, req.modelVersionId.val)) > 1

\* the candidates of a request without type and format
Candidates == FilesOf(prev, req.modelVersionId.val)

\* file f is what the session's stored preferences ask for
Preferred(f) ==
  /\ req.session.val.preferredModelFormat.some
       => prev.files[f].format = req.session.val.preferredModelFormat.val
  /\ req.session.val.preferredPrunedModel => prev.files[f].type = "Pruned Model"

Named == res.op = "filename"

\* a Negative file of a TextualInversion model whose version has a first
\* trained word
NegativeEmbedding ==
  /\ Named
  /\ req.model.type = "TextualInversion"
  /\ Len(req.modelVersion.trainedWords) > 0
  /\ req.file.type = "Negative"

\* w + "-neg." + ext, with neither the model's nor the version's name in it
NegName ==
  /\ res.fileName = req.modelVersion.trainedWords[1] \o <<"-", "neg", ".">>
                      \o LastPart(req.file.name)
  /\ ~Includes(res.fileName, filenamize(req.model.name))
  /\ ~Includes(res.fileName, filenamize(req.modelVersion.name))

\* C15 as stated: for every first trained word w the name is w-neg.ext.
C15_AnyTrainedWord == NegativeEmbedding => NegName

\* C15 amended: for a non-empty first trained word w the name is w-neg.ext,
\* ext being what follows the last '.' of the stored name (the whole name when
\* it has no '.'); for an empty first trained word the stored name is
\* returned unchanged.
C15_NegName ==
  NegativeEmbedding =>
    IF req.modelVersion.trainedWords[1] # <<>>
      THEN NegName
      ELSE res.fileName = req.file.name

C15_Witness ==
  /\ NegativeEmbedding
  /\ req.file.name = <<"weights", ".", "v2", ".", "pt">>
  /\ res.fileName = <<"foo", "-", "neg", ".", "pt">>

Inpainting == <<"-", "inpainting">>

\* a file of a model that is not a TextualInversion, stored under a name that
\* contains "-inpainting"
InpaintingFile ==
  /\ Named
  /\ req.model.type # "TextualInversion"
  /\ Includes(req.file.name, Inpainting)

\* C16 as stated: whatever the file's type, the name returned contains
\* "-inpainting".
C16_AnyFileType == InpaintingFile => Includes(res.fileName, Inpainting)

\* C16 amended: the name returned contains "-inpainting" for every file type
\* but Training Data, whose name is <model>_<version>_trainingData.zip.
C16_InpaintingKept ==
  InpaintingFile =>
    IF req.file.type = "Training Data"
      THEN res.fileName =
             filenamize(req.model.name) \o <<"_">>
               \o ReplaceFirst(filenamize(req.modelVersion.name),
                               filenamize(req.model.name), <<>>)
               \o <<"_", "trainingData", ".", "zip">>
      ELSE Includes(res.fileName, Inpainting)

C16_Witness ==
  /\ InpaintingFile
  /\ req.file.type = "Text Encoder"
  /\ req.modelVersion.name = <<"mymodel", " ", "v2">>
  /\ res.fileName = <<"mymodel", "_", "_", "v2", "-", "inpainting", ".", "ckpt">>

(***************************** claims: model edits *************************)
Edited == res.op \in {"createModel", "updateModel"}

\* some version of the input carries two files with the same (type, format)
RepeatsPair(input) ==
  \E v \in 1..Len(input.modelVersions) :
    LET fs == input.modelVersions[v].files
    IN \E i, j \in 1..Len(fs) :
         i # j /\ fs[i].type = fs[j].type /\ fs[i].format = fs[j].format

\* two stored files with the same (model version, type, format)
StoredTwins ==
  \E f, g \in DOMAIN files :
    /\ f # g
    /\ files[f].modelVersionId = files[g].modelVersionId
    /\ files[f].type = files[g].type
    /\ files[f].format = files[g].format

\* C17: createModel and updateModel answer CONFLICT, leaving the store as it
\* was, exactly for the inputs in which a version carries two files with the
\* same (type, format), whether or not the model exists; and after every
\* sequence of the two operations no two stored files share (model version,
\* type, format).
C17_ConflictBeforeAnyWrite ==
  /\ Edited =>
       /\ RepeatsPair(req.input) <=> res.status = "CONFLICT"
       /\ res.status = "CONFLICT" => DB = prev
  /\ ~StoredTwins

C17_Witness ==
  /\ res.op = "updateModel" /\ res.status = "CONFLICT"
  /\ req.input.id \in DOMAIN prev.models
  /\ \E v \in 1..Len(req.input.modelVersions) :
       /\ req.input.modelVersions[v].id # 0
       /\ \E i, j \in 1..Len(req.input.modelVersions[v].files) :
            /\ req.input.modelVersions[v].files[i].id # 0
            /\ req.input.modelVersions[v].files[j].id = 0

(***************************** claims: users *******************************)
UserWrite == res.op \in {"updateUser", "deleteUser"}

\* the rows the call changed or removed
Touched ==
  {u \in DOMAIN prev.users : u \notin DOMAIN users \/ users[u] # prev.users[u]}

\* C18: an update or delete whose input id is absent or differs from the
\* session user's id is answered with the authorization error and leaves the
\* users table as it was; a row is changed or removed only by a call whose
\* input id is the session user's id, and it is that user's row.
C18_OnlyOwnRow ==
  UserWrite =>
    /\ req.input.id # Some(req.ctx.user.id) =>
         /\ res.status = "UNAUTHORIZED"
         /\ users = prev.users
    /\ Touched \subseteq {req.ctx.user.id}
    /\ Touched # {} => req.input.id = Some(req.ctx.user.id)
    /\ DOMAIN users \subseteq DOMAIN prev.users

C18_Witness ==
  /\ res.op = "updateUser"
  /\ req.input.id = None
  /\ req.ctx.user.id \in DOMAIN prev.users
  /\ res.status = "UNAUTHORIZED"
  /\ users = prev.users

UserHandled == res.op \in ReadHandlers \cup {"updateUser", "deleteUser", "batchBlockTags"}

\* C19: a not-found or authorization error raised inside a user handler is
\* the error the caller gets, and only an error that is neither is reported
\* as a database error.
C19_TypedErrorsPass ==
  UserHandled =>
    /\ res.raised \in TypedErrors => res.status = res.raised
    /\ res.status = "DB_ERROR" => res.raised = "raw"

(***************************** claims: scan message ************************)
IsSpecial(imp) == processImport(imp) \in specialImports

\* the imports a payload reports, as the message is to list them: those
\* reported dangerous and the reclassified global imports, then the other
\* global imports
ListedDangerous(body) ==
  ListOf(body.picklescanDangerousImports)
    \o SelectSeq(ListOf(body.picklescanGlobalImports), IsSpecial)

ListedGlobals(body) ==
  SelectSeq(ListOf(body.picklescanGlobalImports), LAMBDA imp : ~IsSpecial(imp))

ImportsReported(body) ==
  Len(ListOf(body.picklescanDangerousImports))
    + Len(ListOf(body.picklescanGlobalImports))

ExpectedMessage(body) ==
  << <<"**Detected Pickle imports (", ToString(ImportsReported(body)), ")**">> >>
  \o (IF ListedDangerous(body) # <<>>
        THEN << <<"*Dangerous import detected*">> >> ELSE <<>>)
  \o <<Fence>>
  \o [i \in 1..Len(ListedDangerous(body)) |->
        <<"*">> \o processImport(ListedDangerous(body)[i]) \o <<"*">>]
  \o [i \in 1..Len(ListedGlobals(body)) |-> processImport(ListedGlobals(body)[i])]
  \o <<Fence>>

\* C20: a Scan call that reports at least one import (and whose pickle scan
\* is not pending) stores a message made of the header with the number of
\* reported imports, the 'Dangerous import detected' line exactly when some
\* import is dangerous, and a block listing every reported import once: the
\* dangerous ones (reported or reclassified) first and marked, then the other
\* global imports unmarked.
C20_EveryImportListedOnce ==
  (/\ IntakeDone /\ "Scan" \in TasksOf(req)
   /\ ImportsReported(req.body) > 0
   /\ req.body.picklescanExitCode # ScanExitCode.Pending)
    => files[res.fileId].pickleScanMessage = Some(ExpectedMessage(req.body))

(***************************** claims: intake frame ************************)
\* an intake call that found its file
IntakeFound == res.op = "intake" /\ req.method = "POST" /\ ~NoRowFor(prev, req)

ScanFields(file) ==
  <<file.pickleScanResult, file.pickleScanMessage, file.virusScanResult,
    file.virusScanMessage, file.rawScanResult, file.scannedAt>>

\* C24: an intake call writes only what the tasks of its list write: without
\* Import no exists flag, URL, version status or model status changes;
\* without Scan no verdict, message, raw result or timestamp changes; without
\* Hash, or without a hash map in the body, no hash record changes; a call
\* whose list is only Convert changes nothing and is answered 200.
C24_OnlyListedTasksWrite ==
  IntakeFound =>
    /\ "Import" \notin TasksOf(req) =>
         /\ \A f \in DOMAIN prev.files :
              files[f].exists = prev.files[f].exists /\ files[f].url = prev.files[f].url
         /\ versions = prev.versions
         /\ models = prev.models
    /\ "Scan" \notin TasksOf(req) =>
         \A f \in DOMAIN prev.files : ScanFields(files[f]) = ScanFields(prev.files[f])
    /\ ("Hash" \notin TasksOf(req) \/ ~req.body.hashes.some) => hashes = prev.hashes
    /\ TasksOf(req) = {"Convert"} => DB = prev /\ res.status = 200

C24_Witness ==
  /\ IntakeFound
  /\ TasksOf(req) = {"Convert"}
  /\ req.body.fileExists = 0 /\ req.body.hashes.some
  /\ res.status = 200
  /\ DB = prev

\* C28: an intake call sets no version and no model to Published; the only
\* version whose status it changes is the one the request names, the only
\* model the one that owns that version.
C28_CascadeStaysLocal ==
  res.op = "intake" =>
    /\ DOMAIN versions = DOMAIN prev.versions /\ DOMAIN models = DOMAIN prev.models
    /\ \A v \in DOMAIN versions :
         versions[v].status # prev.versions[v].status
           => v = ReqVersion /\ versions[v].status # "Published"
    /\ \A m \in DOMAIN models :
         models[m].status # prev.models[m].status
           => m = ReqModel /\ models[m].status # "Published"

C28_Witness ==
  /\ ReportsMissing
  /\ versions[ReqVersion].status # prev.versions[ReqVersion].status
  /\ \E v \in VersionsOf(prev, ReqModel) \ {ReqVersion} :
       versions[v].status = "Published"
  /\ \E m \in DOMAIN models \ {ReqModel} : models[m].status = "Published"

\* C29: whenever an Import call reports the file missing and the owning model
\* is then without a Published version, the model is Unpublished, whatever
\* its status was before the call (Draft and GatherInterest included).
C29_UnpublishedWhateverBefore ==
  (ReportsMissing /\ PublishedIn(DB, ReqModel) = {})
    => models[ReqModel].status = "Unpublished"

C29_Witness ==
  /\ ReportsMissing
  /\ prev.models[ReqModel].status = "GatherInterest"
  /\ PublishedIn(prev, ReqModel) = {}
  /\ models[ReqModel].status = "Unpublished"

\* the store with the scan timestamps left out
Timeless(db) ==
  [db EXCEPT !.files = [f \in DOMAIN @ |-> [@[f] EXCEPT !.scannedAt = None]]]

\* C26: the request just processed, processed again on the store it left,
\* leaves file rows, hash records and version and model statuses as they
\* are, the scan timestamp apart.
C26_SecondCallChangesNothing ==
  res.op = "intake"
    => Timeless(WebhookEndpoint(DB, req, now).db) = Timeless(DB)

C26_Witness ==
  /\ IntakeDone
  /\ TasksOf(req) = {"Import", "Scan", "Hash"}
  /\ files[res.fileId].url # prev.files[res.fileId].url
  /\ HashesOf(hashes, res.fileId) # HashesOf(prev.hashes, res.fileId)
  /\ HashesOf(prev.hashes, res.fileId) # {}
  /\ WebhookEndpoint(DB, req, now).db.files[res.fileId].scannedAt
       # files[res.fileId].scannedAt

(***************************** SpecServe ***********************************)
\* The scanner reports on the files of a published store while visitors
\* download them.
MaxServeOps == 3

\* the scanner's verdicts on the files of the store: the file is missing or
\* present, or both its scans found danger
VerdictRequests(db) ==
  UNION {{IntakeReq("POST", db.files[f].modelVersionId, db.files[f].type,
                    db.files[f].format, Some(<<"Import">>),
                    QuietBody(0, BucketUrl, None)),
          IntakeReq("POST", db.files[f].modelVersionId, db.files[f].type,
                    db.files[f].format, Some(<<"Scan">>),
                    Body(1, BucketUrl, ScanExitCode.Danger, ScanExitCode.Danger,
                         Some(<<OsSystem>>), Some(<<OsSystem>>), None))} :
         f \in DOMAIN db.files}

ServeRequests(db) ==
  {DownloadReq(Some("198.51.100.7"), Some(v), t, None, u, None) :
     v \in DOMAIN db.versions, t \in {None, Some("Model")},
     u \in {None, Some(Member)}}

InitServe ==
  /\ \E c \in Configs : Start(CreatedDB("Published", "Published"), c)
  /\ req = NoReq

Verdict ==
  /\ now < MaxServeOps
  /\ \E r \in VerdictRequests(DB) : Apply(WebhookEndpoint(DB, r, now), r)

Serve ==
  /\ now < MaxServeOps
  /\ \E r \in ServeRequests(DB) :
       \E file \in FileChoices(DB, r) :
         Apply(downloadModel(DB, env, r, file, FALSE), Attempt(r, FALSE))

NextServe == Verdict \/ Serve

SpecServe == InitServe /\ [][NextServe]_vars

(***************************** claims: download after the cascade **********)
\* a download of an existing version by a caller the login gate lets through
PassesGate ==
  /\ res.op = "download"
  /\ ~Blacklisted
  /\ req.modelVersionId.val \in DOMAIN prev.versions
  /\ ~RequiresLogin(env, req)
  /\ ~req.createFails

\* the files of the requested version that have the type and the format the
\* request names, whatever else their rows hold
OfTypeAndFormat ==
  {f \in DOMAIN prev.files :
     /\ prev.files[f].modelVersionId = req.modelVersionId.val
     /\ req.type.some => prev.files[f].type = req.type.val
     /\ req.format.some => prev.files[f].format = req.format.val}

\* C25: the download is decided by the version id and the type and format
\* filter alone: whatever the version's status, the file's exists flag and
\* its scan verdicts, a request that the gate lets through and whose filter
\* a file of the version passes records an event and is redirected to the
\* signed URL of such a file.
C25_ServedWhateverTheVerdict ==
  (PassesGate /\ OfTypeAndFormat # {}) =>
    /\ Served
    /\ res.fileId \in OfTypeAndFormat
    /\ Len(activities) = Len(prev.activities) + 1

C25_Witness ==
  /\ Served
  /\ Len(activities) = Len(prev.activities) + 1
  /\ req.type.some
  /\ versions[req.modelVersionId.val].status = "Draft"
  /\ models[versions[req.modelVersionId.val].modelId].status = "Unpublished"
  /\ files[res.fileId].exists = Some(FALSE)
  /\ files[res.fileId].pickleScanResult = "Danger"
  /\ files[res.fileId].virusScanResult = "Danger"

(***************************** the webhook, statement by statement *********)
\* Every await of the handler is a statement of its own against the store
\* (no transaction spans them), so calls interleave between statements.  A
\* call is [r, t, pc, fileId, url, modelId, count, status, failedAt, before]:
\* its request, its new Date(), the statement it is about to run, what its
\* reads returned, its answer once pc = "done", the statement that threw, and
\* (history) the store as it was when the call arrived.
WriteStatements ==
  {"modelVersion.update", "model.update", "modelFile.update",
   "modelHash.deleteMany", "modelHash.createMany"}

NewCall(r, t, db) ==
  [r |-> r, t |-> t, pc |-> "modelFile.findUnique", fileId |-> 0, url |-> <<>>,
   modelId |-> 0, count |-> -1, status |-> 0, failedAt |-> "none", before |-> db]

\* res.status(...): the call is answered
Answer(c, status) == [c EXCEPT !.pc = "done", !.status = status]

\* an exception leaves the handler: the framework answers 500
Throw(c) == [c EXCEPT !.pc = "done", !.status = 500, !.failedAt = c.pc]

\* after the update of the file row: the Hash block of lines 62-71
AfterFileUpdate(c) ==
  IF HasTask(Tasks(c.r), "Hash") /\ c.r.body.hashes.some
    THEN [c EXCEPT !.pc = "modelHash.deleteMany"]
    ELSE Answer(c, 200)

\* after the Import block: line 59, data has a key when Scan or Import ran
AfterUnpublish(c) ==
  IF HasTask(Tasks(c.r), "Scan") \/ HasTask(Tasks(c.r), "Import")
    THEN [c EXCEPT !.pc = "modelFile.update"]
    ELSE AfterFileUpdate(c)

\* the cascade left out
AfterFindUnique_SkipsCascade(c) == AfterUnpublish(c)

\* after findUnique: line 51
AfterFindUnique(c) ==
  IF HasTask(Tasks(c.r), "Import") /\ c.r.body.fileExists # 1
    THEN [c EXCEPT !.pc = "modelVersion.update"]
    ELSE AfterUnpublish(c)

\* the rows kept although their file's hashes are replaced
deleteMany_KeepsRows(rows, fileId) == rows

\* prisma.modelHash.deleteMany({ where: { fileId } })
deleteMany(rows, fileId) == {h \in rows : h.fileId # fileId}

\* Object.entries(scanResult.hashes).map(...)
HashRows(fileId, hs) ==
  {[fileId |-> fileId, type |-> k, hash |-> hs[k]] : k \in DOMAIN hs}

\* @@id([fileId, type]): a row of new has the key of a stored row
KeyTaken(rows, new) ==
  \E h \in rows, n \in new : h.fileId = n.fileId /\ h.type = n.type

\* prisma.modelHash.createMany without skipDuplicates: one INSERT, which
\* fails as a whole on a taken key
createMany(rows, new) ==
  IF KeyTaken(rows, new) THEN [ok |-> FALSE, rows |-> rows]
  ELSE [ok |-> TRUE, rows |-> rows \cup new]

\* the count taken before the version was set to Draft
CountPublished_Before(db, c) == PublishedCount(c.before, c.modelId)

\* the _count of lines 89-100, on the store as the statement finds it
CountPublished(db, c) == PublishedCount(db, c.modelId)

\* The next statement of call c on store db.  throws: whether the statement,
\* when it is a write, fails for a reason of the database's.
Statement(db, c, throws) ==
  LET r == c.r
      kept(d) == [db |-> db, c |-> d]
  IN
  IF c.pc \in WriteStatements /\ throws THEN kept(Throw(c))
  ELSE CASE c.pc = "modelFile.findUnique" ->
         IF r.method # "POST" THEN kept(Answer(c, 405))
         ELSE IF findUnique(db, r) = 0 THEN kept(Answer(c, 404))
         ELSE kept(AfterFindUnique(
                [c EXCEPT !.fileId = findUnique(db, r),
                          !.url = db.files[findUnique(db, r)].url]))
    [] c.pc = "modelVersion.update" ->
         [db |-> [db EXCEPT !.versions[r.modelVersionId].status = "Draft"],
          c |-> [c EXCEPT !.pc = "modelVersion.findUnique"]]
    [] c.pc = "modelVersion.findUnique" ->
         kept([c EXCEPT !.modelId = db.versions[r.modelVersionId].modelId,
                        !.pc = "model.findUnique"])
    [] c.pc = "model.findUnique" ->
         LET count == IF c.modelId \in DOMAIN db.models
                        THEN CountPublished(db, c) ELSE -1
         IN kept(IF count = 0 THEN [c EXCEPT !.count = 0, !.pc = "model.update"]
                 ELSE AfterUnpublish([c EXCEPT !.count = count]))
    [] c.pc = "model.update" ->
         [db |-> [db EXCEPT !.models[c.modelId].status = "Unpublished"],
          c |-> AfterUnpublish(c)]
    [] c.pc = "modelFile.update" ->
         [db |-> [db EXCEPT !.files[c.fileId] = FileData(@, r, c.url, c.t)],
          c |-> AfterFileUpdate(c)]
    [] c.pc = "modelHash.deleteMany" ->
         [db |-> [db EXCEPT !.hashes = deleteMany(@, c.fileId)],
          c |-> [c EXCEPT !.pc = "modelHash.createMany"]]
    [] c.pc = "modelHash.createMany" ->
         LET out == createMany(db.hashes, HashRows(c.fileId, r.body.hashes.val))
         IN [db |-> [db EXCEPT !.hashes = out.rows],
             c |-> IF out.ok THEN Answer(c, 200) ELSE Throw(c)]

\* hashesAsObject: the last row of a type wins
hashesAsObject(rows) ==
  [k \in {h.type : h \in rows} |-> (CHOOSE h \in rows : h.type = k).hash]

\* GET of the model-version detail: the files of the version with the hash
\* records the one findFirst read
resModelVersionDetails(db, id) ==
  IF id \notin DOMAIN db.versions \/ FilesOf(db, id) = {}
    THEN [op |-> "detail", status |-> 404, files |-> <<>>]
    ELSE [op |-> "detail", status |-> 200,
          files |-> [f \in FilesOf(db, id) |->
                       hashesAsObject(HashesOf(db.hashes, f))]]

\* a call arrives
Arrive(r) ==
  /\ calls' = Append(calls, NewCall(r, now, DB))
  /\ now' = now + 1
  /\ req' = r
  /\ res' = [op |-> "arrive", call |-> Len(calls) + 1]
  /\ prev' = DB
  /\ UNCHANGED <<alert, models, versions, files, hashes, seq, env, activities, users>>

\* call p runs its next statement
Run(p, throws) ==
  /\ calls[p].pc # "done"
  /\ \E out \in {Statement(DB, calls[p], throws)} :
       /\ calls' = [calls EXCEPT ![p] = out.c]
       /\ models' = out.db.models
       /\ versions' = out.db.versions
       /\ files' = out.db.files
       /\ hashes' = out.db.hashes
       /\ res' = [op |-> "statement", call |-> p, pc |-> calls[p].pc,
                  threw |-> out.c.failedAt # "none"]
  /\ req' = calls[p].r
  /\ prev' = DB
  /\ UNCHANGED <<alert, seq, env, activities, users, now>>

\* a visitor reads the details of a version
Detail(id) ==
  /\ req' = [op |-> "detail", id |-> id]
  /\ res' = resModelVersionDetails(DB, id)
  /\ prev' = DB
  /\ UNCHANGED <<alert, calls, models, versions, files, hashes, seq, env,
                 activities, users, now>>

(***************************** SpecRace ************************************)
\* Scanner callbacks for the files of one model run concurrently while a
\* visitor reads; no statement fails but for a violated constraint.
MaxRaceCalls == 2

H3 == ("CRC32" :> "c3")

Missing(versionId, format) ==
  IntakeReq("POST", versionId, "Model", format, Some(<<"Import">>),
            QuietBody(0, BucketUrl, None))

Hashed(versionId, format, hs) ==
  IntakeReq("POST", versionId, "Model", format, Some(<<"Hash">>),
            QuietBody(1, BucketUrl, Some(hs)))

RaceRequests ==
  {Missing(1, "SafeTensor"), Missing(2, "SafeTensor"),
   Hashed(1, "SafeTensor", H1), Hashed(1, "SafeTensor", H2),
   Hashed(1, "SafeTensor", H3)}

\* the store after two createModel calls, before or after a first Hash call
RaceStores ==
  UNION {{db, WebhookEndpoint(db, Hashed(1, "SafeTensor", H1), 0).db} :
           db \in {CreatedDB("Published", "Published")}}

InitRace ==
  /\ \E db \in {db \in RaceStores : db.hashes # {}} : Start(db, EnvExample)
  /\ req = NoReq

RaceArrive ==
  /\ Len(calls) < MaxRaceCalls
  /\ \E r \in RaceRequests : Arrive(r)

RaceRun == \E p \in 1..Len(calls) : Run(p, FALSE)

\* the visitor reads the version whose file the Hash calls are about
RaceDetail == \E id \in {Hashed(1, "SafeTensor", H1).modelVersionId} : Detail(id)

NextRace == RaceArrive \/ RaceRun \/ RaceDetail

SpecRace == InitRace /\ [][NextRace]_vars

(***************************** SpecFaults **********************************)
\* One call at a time, each of whose writes may fail.
MaxFaultCalls == 2

FaultRequests ==
  {IntakeReq("POST", v, "Model", "SafeTensor", tasks, QuietBody(e, BucketUrl, Some(H2))) :
     v \in {1, 2}, tasks \in {None, Some(<<"Hash">>)}, e \in {0, 1}}

InitFaults ==
  /\ \E db \in RaceStores : Start(db, EnvExample)
  /\ req = NoReq

FaultArrive ==
  /\ Len(calls) < MaxFaultCalls
  /\ \A p \in 1..Len(calls) : calls[p].pc = "done"
  /\ \E r \in FaultRequests : Arrive(r)

FaultRun == \E p \in 1..Len(calls) : Run(p, FALSE)

FaultThrow ==
  \E p \in 1..Len(calls) : calls[p].pc \in WriteStatements /\ Run(p, TRUE)

NextFaults == FaultArrive \/ FaultRun \/ FaultThrow

SpecFaults == InitFaults /\ [][NextFaults]_vars

\* the statements of a call, run one after the other without a failure,
\* leave the store the handler leaves
StatementsMakeTheHandler ==
  \A p \in 1..Len(calls) :
    (calls[p].pc = "done" /\ calls[p].failedAt = "none" /\ p = Len(calls))
      => /\ calls[p].status = WebhookEndpoint(calls[p].before, calls[p].r, calls[p].t).res.status
         /\ DB = WebhookEndpoint(calls[p].before, calls[p].r, calls[p].t).db

(***************************** claims: concurrent calls ********************)
Done(c) == c.pc = "done"

\* call c reported its file missing and was answered 200
ReportedMissing(c) ==
  /\ Done(c) /\ c.status = 200
  /\ HasTask(Tasks(c.r), "Import") /\ c.r.body.fileExists # 1

\* calls p and q reported files of two versions of one model missing, both
\* versions Published when each of them arrived
TwoVersionsReportedMissing(cs, p, q) ==
  /\ ReportedMissing(cs[p]) /\ ReportedMissing(cs[q])
  /\ cs[p].r.modelVersionId # cs[q].r.modelVersionId
  /\ cs[p].modelId = cs[q].modelId
  /\ \A c \in {cs[p], cs[q]} :
       /\ c.before.versions[cs[p].r.modelVersionId].status = "Published"
       /\ c.before.versions[cs[q].r.modelVersionId].status = "Published"

\* the model is left Published without a Published version
LostUnpublish(db, modelId) ==
  PublishedIn(db, modelId) = {} /\ db.models[modelId].status = "Published"

\* the calls cs run to the end in the order sched gives (a call that is done
\* is passed over)
RECURSIVE Interleave(_, _, _)
Interleave(db, cs, sched) ==
  IF sched = <<>> THEN [db |-> db, calls |-> cs]
  ELSE LET p == Head(sched)
           out == Statement(db, cs[p], FALSE)
       IN IF Done(cs[p]) THEN Interleave(db, cs, Tail(sched))
          ELSE Interleave(out.db, [cs EXCEPT ![p] = out.c], Tail(sched))

\* the statements of a call that reports its file missing
MissingStatements ==
  {"modelFile.findUnique", "modelVersion.update", "modelVersion.findUnique",
   "model.findUnique", "model.update", "modelFile.update"}

\* every order in which two such calls may run
Schedules == [1..(2 * Cardinality(MissingStatements)) -> {1, 2}]

\* C21 as stated: from a store where a model has exactly two Published
\* versions, some interleaving of two calls that report a file of each
\* missing ends with both calls answered, no version Published and the model
\* still Published.
C21_SomeInterleavingLosesTheUnpublish ==
  (calls = <<>> /\ PublishedIn(DB, 1) = {1, 2}) =>
    \E sched \in Schedules :
      LET end == Interleave(DB, <<NewCall(Missing(1, "SafeTensor"), 0, DB),
                                  NewCall(Missing(2, "SafeTensor"), 0, DB)>>, sched)
      IN /\ TwoVersionsReportedMissing(end.calls, 1, 2)
         /\ LostUnpublish(end.db, 1)

\* C21 (amended): in every interleaving of two calls that report files of two
\* Published versions of one model missing, once both are answered and no
\* version of the model is Published the model is Unpublished: each call
\* counts after its own version update, so the call whose count is the later
\* one finds no Published version.
C21_LaterCountUnpublishes ==
  \A p, q \in 1..Len(calls) :
    TwoVersionsReportedMissing(calls, p, q) => ~LostUnpublish(DB, calls[p].modelId)

C21_Witness ==
  \E p, q \in 1..Len(calls) :
    /\ TwoVersionsReportedMissing(calls, p, q)
    /\ calls[p].count = 1 /\ calls[q].count = 0
    /\ PublishedIn(DB, calls[p].modelId) = {}
    /\ models[calls[p].modelId].status = "Unpublished"

\* call p has deleted the hash records of its file and not yet inserted the
\* new ones, and no other call has inserted records for that file
Replacing(p) ==
  /\ calls[p].pc = "modelHash.createMany"
  /\ \A q \in 1..Len(calls) \ {p} :
       ~(Done(calls[q]) /\ calls[q].fileId = calls[p].fileId
         /\ HasTask(Tasks(calls[q].r), "Hash"))

\* C22: between the deleteMany and the createMany of a Hash call the file has
\* no hash record, and a reader of the version's details receives the file
\* with an empty hash object.
C22_NoHashesWhileReplacing ==
  \A p \in 1..Len(calls) :
    Replacing(p) =>
      /\ HashesOf(hashes, calls[p].fileId) = {}
      /\ (res.op = "detail" /\ req.id = calls[p].r.modelVersionId)
           => DOMAIN res.files[calls[p].fileId] = {}

C22_Witness ==
  \E p \in 1..Len(calls) :
    /\ Replacing(p)
    /\ HashesOf(calls[p].before.hashes, calls[p].fileId) # {}
    /\ DOMAIN calls[p].r.body.hashes.val # {}
    /\ res.op = "detail" /\ res.status = 200
    /\ req.id = calls[p].r.modelVersionId
    /\ DOMAIN res.files[calls[p].fileId] = {}

HashCall(c) == HasTask(Tasks(c.r), "Hash") /\ c.r.body.hashes.some

\* C27: two Hash calls on one file with different maps both end without a
\* duplicate-key error, and the file's hash records are then those of one of
\* the two maps.
C27_HashCallsSerialize ==
  \A p, q \in 1..Len(calls) :
    (/\ p # q
     /\ Done(calls[p]) /\ Done(calls[q])
     /\ HashCall(calls[p]) /\ HashCall(calls[q])
     /\ calls[p].fileId = calls[q].fileId
     /\ calls[p].r.body.hashes.val # calls[q].r.body.hashes.val)
      => /\ calls[p].status = 200 /\ calls[q].status = 200
         /\ HashesOf(hashes, calls[p].fileId)
              \in {HashRows(calls[p].fileId, calls[p].r.body.hashes.val),
                   HashRows(calls[q].fileId, calls[q].r.body.hashes.val)}

(***************************** claims: failing writes **********************)
\* the last step was a write of a call, and it threw
Threw(pc) == res.op = "statement" /\ res.threw /\ res.pc = pc

\* the store had the call run to its end
Completed(c) == WebhookEndpoint(c.before, c.r, c.t).db

\* C23: a write that fails ends the call with 500 and undoes nothing: the
\* writes made before it are in the store and the later ones are not.  When
\* the file-row update fails after the cascade, the statuses are those of
\* the cascade and the file row is the old one; when the hash deletion or
\* insertion fails, the file row and the cascade are those of the whole call.
C23_NoRollback ==
  (res.op = "statement" /\ res.threw) =>
    LET c == calls[res.call]
    IN /\ c.status = 500
       /\ Threw("modelVersion.update") => DB = c.before
       /\ Threw("model.update") =>
            DB = [c.before EXCEPT !.versions[c.r.modelVersionId].status = "Draft"]
       /\ Threw("modelFile.update") =>
            /\ versions = Completed(c).versions
            /\ models = Completed(c).models
            /\ files = c.before.files
            /\ hashes = c.before.hashes
       /\ Threw("modelHash.deleteMany") =>
            DB = [Completed(c) EXCEPT !.hashes = c.before.hashes]
       /\ Threw("modelHash.createMany") =>
            DB = [Completed(c) EXCEPT !.hashes = deleteMany(c.before.hashes, c.fileId)]

C23_Witness ==
  /\ Len(calls) = 2
  /\ calls[1].failedAt = "modelHash.createMany"
  /\ HashesOf(calls[1].before.hashes, calls[1].fileId) # {}
  /\ Threw("modelFile.update")
  /\ calls[2].modelId # 0
  /\ calls[2].before.versions[req.modelVersionId].status = "Published"
  /\ calls[2].before.models[calls[2].modelId].status = "Published"
  /\ versions[req.modelVersionId].status = "Draft"
  /\ models[calls[2].modelId].status = "Unpublished"
  /\ files[calls[2].fileId].exists = None
  /\ HashesOf(hashes, calls[1].fileId) = {}

(***************************** EarlyAccessAlert ****************************)
\* The component as a signed-in user sees it for a version in early access.
\* The cached data of user.getEngagedModelVersions is None (undefined: no
\* data yet) or Some(d), d a record with at most the key Notify.  alert is
\* [mounted, versionId, server, cache, fetching, pending, pre, last]: the
\* version shown, the user's Notify engagements on the server, the cache,
\* whether the query's fetch is in flight, the context of the toggle mutation
\* in flight, and (history) the cache as the last toggle found it and the
\* last callback run.
NoNotify == [k \in {} |-> <<>>]

\* getUserEngagedModelVersionsHandler: the engagements grouped by type
EngagedModelVersions(server) ==
  IF server = <<>> THEN NoNotify ELSE [Notify |-> server]

\* data.Notify with its default (line 21, line 38)
NotifyOf(data) ==
  IF data.some /\ "Notify" \in DOMAIN data.val THEN data.val.Notify ELSE <<>>

\* notifying.includes(versionId), line 27
alreadyNotifying(a) == a.versionId \in Range(NotifyOf(a.cache))

Without(list, id) == SelectSeq(list, LAMBDA x : x # id)

\* the updater of lines 38-41
Toggled(data, already, versionId) ==
  IF already THEN [Notify |-> Without(NotifyOf(data), versionId)]
  ELSE [Notify |-> Append(NotifyOf(data), versionId)]

\* setData(undefined, data): the query client leaves the cache alone when
\* the data it is given is undefined
setData(cache, data) == IF data.some THEN data ELSE cache

\* onMutate, lines 30-45; the cancel of line 31 is for user.getEngagedModels,
\* so a fetch of user.getEngagedModelVersions in flight goes on
onMutate(a) ==
  [a EXCEPT !.pending = Some([prevEngaged |-> a.cache]),
            !.cache = Some(Toggled(a.cache, alreadyNotifying(a), a.versionId)),
            !.pre = a.cache,
            !.last = "onMutate"]

\* onError, lines 53-56
onError(a) ==
  [a EXCEPT !.cache = setData(a.cache, a.pending.val.prevEngaged),
            !.pending = None,
            !.last = "onError"]

\* onSuccess, lines 46-52: a notification only
onSuccess(a) == [a EXCEPT !.pending = None, !.last = "onSuccess"]

(***************************** SpecAlert ***********************************)
MaxToggles == 2

AlertVersions == {5, 7}

EngagedOnServer == {<<>>, <<5>>, <<7>>, <<7, 5>>}

\* the component mounts with the query's data cached already or being fetched
InitAlert ==
  /\ StartStore(EmptyDB, EnvExample)
  /\ req = NoReq
  /\ \E versionId \in AlertVersions, server \in EngagedOnServer, cached \in BOOLEAN :
       alert = [mounted |-> TRUE, versionId |-> versionId, server |-> server,
                cache |-> IF cached THEN Some(EngagedModelVersions(server)) ELSE None,
                fetching |-> ~cached, pending |-> None, pre |-> None,
                last |-> "mount", toggles |-> 0]

AlertStep(a) ==
  /\ alert' = a
  /\ UNCHANGED <<calls, models, versions, files, hashes, seq, env, activities,
                 users, now, req, res, prev>>

\* the fetch of user.getEngagedModelVersions resolves
Fetched ==
  /\ alert.fetching
  /\ AlertStep([alert EXCEPT !.cache = Some(EngagedModelVersions(alert.server)),
                             !.fetching = FALSE, !.last = "fetched"])

\* ... or fails
FetchFailed ==
  /\ alert.fetching
  /\ AlertStep([alert EXCEPT !.fetching = FALSE, !.last = "fetchError"])

\* the click of line 73, accepted while no toggle is in flight
Toggle ==
  /\ ~alert.pending.some
  /\ alert.toggles < MaxToggles
  /\ AlertStep([onMutate(alert) EXCEPT !.toggles = @ + 1])

ToggleFailed == alert.pending.some /\ AlertStep(onError(alert))

ToggleSucceeded == alert.pending.some /\ AlertStep(onSuccess(alert))

NextAlert == Fetched \/ FetchFailed \/ Toggle \/ ToggleFailed \/ ToggleSucceeded

SpecAlert == InitAlert /\ [][NextAlert]_vars

(***************************** claims: optimistic toggle *******************)
\* C30: a toggle adds versionId to the cached Notify list when it is absent
\* and removes it when it is present, and when the mutation fails the cached
\* data is again exactly what it was before that toggle.
C30_FailedToggleRestoresCache ==
  /\ alert.last = "onMutate" =>
        (alert.versionId \in Range(NotifyOf(alert.cache))
           <=> alert.versionId \notin Range(NotifyOf(alert.pre)))
  /\ alert.last = "onError" => alert.cache = alert.pre

====
